---- MODULE Spec2Model ----
(***************************************************************************)
(* MonkeroECS (multi/ sources): the paged component container, its batch   *)
(* overlay, the scene (ecs) that owns the containers and the entity-id     *)
(* allocator, and the foreach join.                                        *)
(*                                                                         *)
(* A bitmask word is kept as the set of its set bits, a page pointer as a  *)
(* record with an alloc flag (FALSE = nullptr).  With BucketSize <=        *)
(* bitmask_bits every bitmask page is a single 64-bit word                 *)
(* (bucket_bitmask_units = 1).                                             *)
(***************************************************************************)
EXTENDS Integers, Sequences, FiniteSets, TLC

\* ------------------------------------------------------------------------
\* Program constants
\* ------------------------------------------------------------------------
INVALID_ENTITY == 0
initial_bucket_count == 16
bucket_exp == 1
BucketSize == 2 ^ bucket_exp
bucket_mask == BucketSize - 1

\* ------------------------------------------------------------------------
\* Bounds of the model
\* ------------------------------------------------------------------------
MaxId == 2
MaxChecklist == 2
MaxDepth == 2

\* Component types (type keys).  NormalType carries an int payload
\* (test_component_normal), TagType is an empty struct (test_component_tag).
NormalType == 1
TagType == 2
\* UncopiableType carries an int payload and has a deleted copy constructor
\* (test_component_uncopiable).
UncopiableType == 3
\* DependencyType carries an int payload and derives from
\* dependency_components<test_component_tag, test_component_normal>
\* (test_component_dependency_normal).
DependencyType == 4
Types == {NormalType, TagType, UncopiableType, DependencyType}
tag_component(T) == T = TagType
is_copy_constructible(T) == T # UncopiableType
\* The DependencyComponents of T, in the order of the template arguments.
dependencies(T) == IF T = DependencyType THEN <<TagType, NormalType>> ELSE <<>>
\* The payload of a default constructed component (int a = 123 in the
\* tests), a value of Values.
DefaultValue == 2

Values == {1, 2}
Ids == 1 .. MaxId
\* First id whose bucket index does not fit the initial top-level arrays.
FarId == initial_bucket_count * BucketSize
AllIds == 1 .. (MaxId + 1) \cup {FarId}
BucketIdx == {0} \cup {i \div BucketSize : i \in AllIds}
                 \cup {(i - 1) \div BucketSize : i \in AllIds}
LoIdx == 0 .. bucket_mask
\* Addresses operator new may hand out for a component page.
Addrs == 1 .. 4

Hi(id) == id \div BucketSize
Lo(id) == id % BucketSize

Max(S) == CHOOSE x \in S : \A y \in S : y <= x
Min(S) == CHOOSE x \in S : \A y \in S : x <= y

\* ------------------------------------------------------------------------
\* Pages
\* ------------------------------------------------------------------------
NullBits == [alloc |-> FALSE, bits |-> {}]
ZeroBits == [alloc |-> TRUE, bits |-> {}]
NullJump == [alloc |-> FALSE, e |-> [l \in LoIdx |-> 0]]
ZeroJump == [alloc |-> TRUE, e |-> [l \in LoIdx |-> 0]]
\* A component page: addr = 0 is nullptr; val[l] = 0 is raw storage holding
\* no live object, val[l] = v a live object whose field a equals v.
NullComp == [addr |-> 0, val |-> [l \in LoIdx |-> 0]]

Bit(pages, id) == pages[Hi(id)].alloc /\ Lo(id) \in pages[Hi(id)].bits

\* ------------------------------------------------------------------------
\* Events and object lifetime effects produced by one call
\* ------------------------------------------------------------------------
Ev(kind, T, id, v) == [kind |-> kind, type |-> T, id |-> id, val |-> v]

\* ------------------------------------------------------------------------
\* component_container<T>
\* ------------------------------------------------------------------------
NewContainer(T) ==
    [ type |-> T,
      entity_count |-> 0,
      bucket_count |-> 0,
      bucket_bitmask |-> [b \in BucketIdx |-> NullBits],
      top_bitmask |-> {},
      bucket_jump_table |-> [b \in BucketIdx |-> NullJump],
      bucket_components |-> [b \in BucketIdx |-> NullComp],
      batching |-> FALSE,
      batch_checklist |-> <<>>,
      batch_checklist_capacity |-> 0,
      bucket_batch_bitmask |-> [b \in BucketIdx |-> NullBits],
      created |-> FALSE,
      fault |-> FALSE,
      out |-> <<>> ]

Fault(c) == [c EXCEPT !.fault = TRUE]
Emit(c, e) == [c EXCEPT !.out = Append(@, e)]

\* A negative id stands for an id of 2^31 or above (see ULess), whose page
\* index is beyond bucket_count: id > 0 keeps the unsigned comparison.
\* contains that reads the occupancy bit only
contains_committed(c, id) ==
    /\ id # INVALID_ENTITY
    /\ id > 0 /\ Hi(id) < c.bucket_count
    /\ Bit(c.bucket_bitmask, id)

contains(c, id) ==
    /\ id # INVALID_ENTITY
    /\ id > 0 /\ Hi(id) < c.bucket_count
    /\ IF c.batching
       THEN Bit(c.bucket_bitmask, id) # Bit(c.bucket_batch_bitmask, id)
       ELSE Bit(c.bucket_bitmask, id)

size(c) == c.entity_count

\* The payload slot of id (get_unsafe dereferenced): 0 when no live object.
Slot(c, id) ==
    IF tag_component(c.type) THEN 0
    ELSE c.bucket_components[Hi(id)].val[Lo(id)]

\* Address returned by get_unsafe: <<page address, offset>>; a tag container
\* returns the address of its own bucket_components member.
get_unsafe(c, id) ==
    IF tag_component(c.type) THEN <<0, 0>>
    ELSE <<c.bucket_components[Hi(id)].addr, Lo(id)>>

NullPtr == <<-1, -1>>
\* operator[]
Get(c, id) == IF ~contains(c, id) THEN NullPtr ELSE get_unsafe(c, id)

JT(c, id) == c.bucket_jump_table[Hi(id)].e[Lo(id)]
JTTouch(c, id) == IF c.bucket_jump_table[Hi(id)].alloc THEN c ELSE Fault(c)
JTSet(c, id, v) ==
    IF c.bucket_jump_table[Hi(id)].alloc
    THEN [c EXCEPT !.bucket_jump_table[Hi(id)].e[Lo(id)] = v]
    ELSE Fault(c)

get_top_bitmask_size(c) ==
    IF c.bucket_count = 0 THEN 0
    ELSE Max({initial_bucket_count, c.bucket_count \div 64})

\* ensure_bucket_space that copies the component pages to new storage when
\* the page arrays grow
ensure_bucket_space_moving(c, id) ==
    IF Hi(id) < c.bucket_count THEN c
    ELSE
      LET start == Max({initial_bucket_count, c.bucket_count})
          new_bucket_count ==
              Min({n \in {start * (2 ^ k) : k \in 0 .. 4} : n > Hi(id)})
          c1 == IF c.bucket_count = 0
                THEN [c EXCEPT !.bucket_jump_table[0] = ZeroJump]
                ELSE c
      IN  [c1 EXCEPT !.bucket_count = new_bucket_count,
                     !.bucket_components =
                         [b \in BucketIdx |->
                             [@[b] EXCEPT !.addr = IF @ = 0 THEN 0
                                                   ELSE (@ % 4) + 1]]]

ensure_bucket_space(c, id) ==
    IF Hi(id) < c.bucket_count THEN c
    ELSE
      LET start == Max({initial_bucket_count, c.bucket_count})
          \* while(new_bucket_count <= (id>>bucket_exp)) new_bucket_count *= 2
          new_bucket_count ==
              Min({n \in {start * (2 ^ k) : k \in 0 .. 4} : n > Hi(id)})
          c1 == IF c.bucket_count = 0
                THEN [c EXCEPT !.bucket_jump_table[0] = ZeroJump]
                ELSE c
      IN  [c1 EXCEPT !.bucket_count = new_bucket_count]

ensure_bitmask(c, b) ==
    IF c.bucket_bitmask[b].alloc THEN c
    ELSE [c EXCEPT !.bucket_bitmask[b] = ZeroBits]

ensure_jump_table(c, b) ==
    IF c.bucket_jump_table[b].alloc THEN c
    ELSE [c EXCEPT !.bucket_jump_table[b] = ZeroJump]

bitmask_empty(c, b) ==
    ~c.bucket_bitmask[b].alloc \/ c.bucket_bitmask[b].bits = {}

bitmask_insert(c, id) ==
    LET c1 == ensure_bitmask(c, Hi(id))
        c2 == IF c1.bucket_bitmask[Hi(id)].bits = {}
              THEN [c1 EXCEPT !.top_bitmask = @ \cup {Hi(id)}]
              ELSE c1
    IN  [c2 EXCEPT !.bucket_bitmask[Hi(id)].bits = @ \cup {Lo(id)}]

\* bitmask_erase that leaves the top-level bit alone
bitmask_erase_keeping_top(c, id) ==
    IF ~c.bucket_bitmask[Hi(id)].alloc THEN [c |-> Fault(c), hint |-> FALSE]
    ELSE
      LET c1 == [c EXCEPT !.bucket_bitmask[Hi(id)].bits = @ \ {Lo(id)}]
      IN  [c |-> c1,
           hint |-> c1.bucket_bitmask[Hi(id)].bits = {} /\ bitmask_empty(c1, Hi(id))]

\* Returns [c, hint]: hint tells whether the whole bucket became empty.
bitmask_erase(c, id) ==
    IF ~c.bucket_bitmask[Hi(id)].alloc THEN [c |-> Fault(c), hint |-> FALSE]
    ELSE
      LET c1 == [c EXCEPT !.bucket_bitmask[Hi(id)].bits = @ \ {Lo(id)}]
      IN  IF c1.bucket_bitmask[Hi(id)].bits = {} /\ bitmask_empty(c1, Hi(id))
          THEN [c |-> [c1 EXCEPT !.top_bitmask = @ \ {Hi(id)}], hint |-> TRUE]
          ELSE [c |-> c1, hint |-> FALSE]

\* find_bitmask_top / find_bitmask_previous_index on a word kept as a set:
\* the highest set bit, resp. the highest set bit below index.
find_bitmask_top(bits) ==
    IF bits = {} THEN [found |-> FALSE, index |-> 0]
    ELSE [found |-> TRUE, index |-> Max(bits)]

find_bitmask_previous_index(bits, index) ==
    find_bitmask_top({b \in bits : b < index})

\* Returns [id, fault].
find_previous_entity(c, id) ==
    LET page == c.bucket_bitmask[Hi(id)]
        inpage == IF page.alloc
                  THEN find_bitmask_previous_index(page.bits, Lo(id))
                  ELSE [found |-> FALSE, index |-> 0]
        top == find_bitmask_previous_index(c.top_bitmask, Hi(id))
    IN  IF inpage.found
        THEN [id |-> Hi(id) * BucketSize + inpage.index, fault |-> FALSE]
        ELSE IF ~top.found
        THEN [id |-> INVALID_ENTITY, fault |-> FALSE]
        ELSE [id |-> top.index * BucketSize
                       + find_bitmask_top(c.bucket_bitmask[top.index].bits).index,
              fault |-> ~c.bucket_bitmask[top.index].alloc]

\* jump_table_insert that writes the forward links only
jump_table_insert_forward(c, id) ==
    LET c1 == ensure_jump_table(c, Hi(id))
        prev == find_previous_entity(c1, id)
        prev_start_id == prev.id
        c2 == ensure_jump_table(c1, Hi(prev_start_id))
        prev_start == JT(c2, prev_start_id)
        c5 == JTSet(c2, id, prev_start)
        c6 == JTSet(c5, prev_start_id, id)
    IN  IF prev.fault THEN Fault(c6) ELSE c6

jump_table_insert(c, id) ==
    LET c1 == ensure_jump_table(c, Hi(id))
        prev == find_previous_entity(c1, id)
        prev_start_id == prev.id
        c2 == ensure_jump_table(c1, Hi(prev_start_id))
        prev_start == JT(c2, prev_start_id)
        c3 == IF prev_start_id + 1 < id
              THEN JTSet(ensure_jump_table(c2, Hi(id - 1)), id - 1, prev_start_id)
              ELSE c2
        c4 == IF id + 1 < prev_start
              THEN JTSet(c3, prev_start - 1, id)
              ELSE c3
        c5 == JTSet(c4, id, prev_start)
        c6 == JTSet(c5, prev_start_id, id)
    IN  IF prev.fault THEN Fault(c6) ELSE c6

jump_table_erase(c, id) ==
    LET prev == id - 1
        c0 == JTTouch(JTTouch(c, prev), id)
        prev_jmp == JT(c0, prev)
        cur_jmp == JT(c0, id)
        c1 == IF prev_jmp = id
              THEN JTSet(c0, prev, cur_jmp)
              ELSE JTSet(c0, prev_jmp, cur_jmp)
        \* block_start is read through the reference prev_jmp after the write
        block_start == IF prev_jmp = id THEN prev ELSE JT(c1, prev)
        cur_jmp2 == JT(c1, id)
    IN  IF cur_jmp2 # 0
        THEN JTSet(c1, cur_jmp2 - 1, block_start)
        ELSE c1

signal_add(c, id, v) == Emit(c, Ev("add", c.type, id, v))
signal_remove(c, id, v) == Emit(c, Ev("remove", c.type, id, v))

\* addr is the address operator new returns if a component page is allocated.
bucket_insert(c, id, v, addr) ==
    IF tag_component(c.type)
    THEN signal_add(Emit(c, Ev("ctor", c.type, id, 0)), id, 0)
    ELSE
      LET c1 == IF c.bucket_components[Hi(id)].addr = 0
                THEN [c EXCEPT !.bucket_components[Hi(id)].addr = addr]
                ELSE c
          c2 == [c1 EXCEPT !.bucket_components[Hi(id)].val[Lo(id)] = v]
      IN  signal_add(Emit(c2, Ev("ctor", c.type, id, v)), id, v)

\* bucket_erase that runs the destructor before it signals
bucket_erase_destroying_first(c, id, signal) ==
    LET c0 == IF ~tag_component(c.type) /\ c.bucket_components[Hi(id)].addr = 0
              THEN Fault(c) ELSE c
        c1 == Emit(c0, Ev("dtor", c.type, id, Slot(c, id)))
        c2 == IF tag_component(c.type) THEN c1
              ELSE [c1 EXCEPT !.bucket_components[Hi(id)].val[Lo(id)] = 0]
    IN  IF signal THEN signal_remove(c2, id, Slot(c2, id)) ELSE c2

bucket_erase(c, id, signal) ==
    LET v == Slot(c, id)
        c0 == IF ~tag_component(c.type) /\ c.bucket_components[Hi(id)].addr = 0
              THEN Fault(c) ELSE c
        c1 == IF signal THEN signal_remove(c0, id, v) ELSE c0
        c2 == Emit(c1, Ev("dtor", c.type, id, v))
    IN  IF tag_component(c.type) THEN c2
        ELSE [c2 EXCEPT !.bucket_components[Hi(id)].val[Lo(id)] = 0]

\* MONKERO_CONTAINER_DEALLOCATE_BUCKETS is not defined: both are no-ops.
bucket_self_erase(c, b) == c
try_jump_table_bucket_erase(c, b) == c

\* batch_change that toggles the overlay bit and records nothing
batch_change_unlisted(c, id) ==
    LET c1 == IF c.bucket_batch_bitmask[Hi(id)].alloc THEN c
              ELSE [c EXCEPT !.bucket_batch_bitmask[Hi(id)] = ZeroBits]
        was == Lo(id) \in c1.bucket_batch_bitmask[Hi(id)].bits
    IN  [c |-> [c1 EXCEPT !.bucket_batch_bitmask[Hi(id)].bits =
                   IF was THEN @ \ {Lo(id)} ELSE @ \cup {Lo(id)}],
         changed |-> ~was]

\* Returns [c, changed].
batch_change(c, id) ==
    LET c1 == IF c.bucket_batch_bitmask[Hi(id)].alloc THEN c
              ELSE [c EXCEPT !.bucket_batch_bitmask[Hi(id)] = ZeroBits]
        was == Lo(id) \in c1.bucket_batch_bitmask[Hi(id)].bits
        c2 == [c1 EXCEPT !.bucket_batch_bitmask[Hi(id)].bits =
                  IF was THEN @ \ {Lo(id)} ELSE @ \cup {Lo(id)}]
    IN  IF ~was
        THEN [c |-> [c2 EXCEPT
                  !.batch_checklist_capacity =
                      IF Len(c.batch_checklist) = @
                      THEN Max({initial_bucket_count, @ * 2}) ELSE @,
                  !.batch_checklist = Append(@, id)],
              changed |-> TRUE]
        ELSE [c |-> c2, changed |-> FALSE]

\* emplace whose replace branch destroys the old value without signalling
emplace_silent(c, id, v, addr) ==
    IF id = INVALID_ENTITY THEN c
    ELSE
      LET c1 == ensure_bucket_space(c, id)
      IN  IF contains(c1, id)
          THEN bucket_insert(bucket_erase(c1, id, FALSE), id, v, addr)
          ELSE IF c1.batching
          THEN LET c2 == [c1 EXCEPT !.entity_count = @ + 1]
                   bc == batch_change(c2, id)
                   c3 == IF ~bc.changed THEN bucket_erase(bc.c, id, TRUE)
                         ELSE bc.c
               IN  bucket_insert(c3, id, v, addr)
          ELSE LET c2 == [c1 EXCEPT !.entity_count = @ + 1]
               IN  bucket_insert(jump_table_insert(bitmask_insert(c2, id), id),
                                 id, v, addr)

\* emplace without the test for INVALID_ENTITY
emplace_unguarded(c, id, v, addr) ==
      LET c1 == ensure_bucket_space(c, id)
      IN  IF contains(c1, id)
          THEN bucket_insert(bucket_erase(c1, id, TRUE), id, v, addr)
          ELSE IF c1.batching
          THEN LET c2 == [c1 EXCEPT !.entity_count = @ + 1]
                   bc == batch_change(c2, id)
                   c3 == IF ~bc.changed THEN bucket_erase(bc.c, id, TRUE)
                         ELSE bc.c
               IN  bucket_insert(c3, id, v, addr)
          ELSE LET c2 == [c1 EXCEPT !.entity_count = @ + 1]
               IN  bucket_insert(jump_table_insert(bitmask_insert(c2, id), id),
                                 id, v, addr)

emplace(c, id, v, addr) ==
    IF id = INVALID_ENTITY THEN c
    ELSE
      LET c1 == ensure_bucket_space(c, id)
      IN  IF contains(c1, id)
          THEN bucket_insert(bucket_erase(c1, id, TRUE), id, v, addr)
          ELSE IF c1.batching
          THEN LET c2 == [c1 EXCEPT !.entity_count = @ + 1]
                   bc == batch_change(c2, id)
                   c3 == IF ~bc.changed THEN bucket_erase(bc.c, id, TRUE)
                         ELSE bc.c
               IN  bucket_insert(c3, id, v, addr)
          ELSE LET c2 == [c1 EXCEPT !.entity_count = @ + 1]
               IN  bucket_insert(jump_table_insert(bitmask_insert(c2, id), id),
                                 id, v, addr)

\* erase that leaves every payload to the commit while batching
erase_deferred(c, id) ==
    IF ~contains(c, id) THEN c
    ELSE
      LET c1 == [c EXCEPT !.entity_count = @ - 1]
      IN  IF c1.batching
          THEN LET bc == batch_change(c1, id)
               IN  signal_remove(bc.c, id, Slot(bc.c, id))
          ELSE LET be == bitmask_erase(c1, id)
                   c2 == bucket_erase(jump_table_erase(be.c, id), id, TRUE)
               IN  IF be.hint
                   THEN try_jump_table_bucket_erase(
                            bucket_self_erase(c2, Hi(id)), Hi(id))
                   ELSE c2

\* erase whose test reads the occupancy bit only
erase_committed(c, id) ==
    IF ~contains_committed(c, id) THEN c
    ELSE
      LET c1 == [c EXCEPT !.entity_count = @ - 1]
      IN  IF c1.batching
          THEN LET bc == batch_change(c1, id)
               IN  IF ~bc.changed THEN bucket_erase(bc.c, id, TRUE)
                   ELSE signal_remove(bc.c, id, Slot(bc.c, id))
          ELSE LET be == bitmask_erase(c1, id)
                   c2 == bucket_erase(jump_table_erase(be.c, id), id, TRUE)
               IN  IF be.hint
                   THEN try_jump_table_bucket_erase(
                            bucket_self_erase(c2, Hi(id)), Hi(id))
                   ELSE c2

\* erase that leaves entity_count as it is
erase_uncounted(c, id) ==
    IF ~contains(c, id) THEN c
    ELSE IF c.batching
    THEN LET bc == batch_change(c, id)
         IN  IF ~bc.changed THEN bucket_erase(bc.c, id, TRUE)
             ELSE signal_remove(bc.c, id, Slot(bc.c, id))
    ELSE bucket_erase(jump_table_erase(bitmask_erase(c, id).c, id), id, TRUE)

erase(c, id) ==
    IF ~contains(c, id) THEN c
    ELSE
      LET c1 == [c EXCEPT !.entity_count = @ - 1]
      IN  IF c1.batching
          THEN LET bc == batch_change(c1, id)
               IN  IF ~bc.changed THEN bucket_erase(bc.c, id, TRUE)
                   ELSE signal_remove(bc.c, id, Slot(bc.c, id))
          ELSE LET be == bitmask_erase(c1, id)
                   c2 == bucket_erase(jump_table_erase(be.c, id), id, TRUE)
               IN  IF be.hint
                   THEN try_jump_table_bucket_erase(
                            bucket_self_erase(c2, Hi(id)), Hi(id))
                   ELSE c2

\* iterator(from, e): the cursor position; the cached page pointers are
\* re-read from the container, whose pages are not released while a cursor
\* is in use.
iterator(c, e) == [current_entity |-> e, current_bucket |-> Hi(e)]
end(c) == iterator(c, INVALID_ENTITY)

\* Returns [it, fault]: reading bucket_jump_table[0][0] through a null page
\* pointer is a fault.
begin(c) ==
    IF c.entity_count = 0 THEN [it |-> end(c), fault |-> FALSE]
    ELSE IF ~c.bucket_jump_table[0].alloc THEN [it |-> end(c), fault |-> TRUE]
    ELSE [it |-> iterator(c, c.bucket_jump_table[0].e[0]), fault |-> FALSE]

\* iterator::operator++ and component_container_entity_advancer::advance
\* Returns [e, fault].
advance(c, e) ==
    IF ~c.bucket_jump_table[Hi(e)].alloc
    THEN [e |-> INVALID_ENTITY, fault |-> TRUE]
    ELSE [e |-> JT(c, e), fault |-> FALSE]

\* try_advance that moves to any id that is not behind the cursor
try_advance_unchecked(c, it, id) ==
    IF it.current_entity = id THEN [it |-> it, ok |-> TRUE]
    ELSE IF id < it.current_entity
    THEN [it |-> it, ok |-> FALSE]
    ELSE [it |-> iterator(c, id), ok |-> TRUE]

\* iterator::try_advance.  Returns [it, ok].
try_advance(c, it, id) ==
    IF it.current_entity = id THEN [it |-> it, ok |-> TRUE]
    ELSE IF \/ id < it.current_entity
            \/ Hi(id) >= c.bucket_count
            \/ ~c.bucket_bitmask[Hi(id)].alloc
            \/ Lo(id) \notin c.bucket_bitmask[Hi(id)].bits
    THEN [it |-> it, ok |-> FALSE]
    ELSE [it |-> iterator(c, id), ok |-> TRUE]

\* for(auto it = begin(); it != end(); ++it): the ids the loop passes.
\* fuel bounds the walk; a walk that runs out of fuel or meets a null page
\* is reported in fault.
RECURSIVE Walk(_, _, _)
Walk(c, e, fuel) ==
    IF e = INVALID_ENTITY THEN [ids |-> <<>>, fault |-> FALSE]
    ELSE IF fuel = 0 THEN [ids |-> <<>>, fault |-> TRUE]
    ELSE LET nx == advance(c, e)
             rest == IF nx.fault THEN [ids |-> <<>>, fault |-> TRUE]
                     ELSE Walk(c, nx.e, fuel - 1)
         IN  [ids |-> <<e>> \o rest.ids, fault |-> rest.fault]

WalkFuel == MaxId + 3
Chain(c) ==
    LET b == begin(c)
    IN  IF b.fault THEN [ids |-> <<>>, fault |-> TRUE]
        ELSE Walk(c, b.it.current_entity, WalkFuel)

RECURSIVE EraseAll(_, _)
EraseAll(c, ids) ==
    IF ids = <<>> THEN c ELSE EraseAll(erase(c, Head(ids)), Tail(ids))

RECURSIVE DestroyAll(_, _)
DestroyAll(c, ids) ==
    IF ids = <<>> THEN c
    ELSE LET id == Head(ids)
             c1 == Emit(signal_remove(c, id, Slot(c, id)),
                        Ev("dtor", c.type, id, Slot(c, id)))
         IN  DestroyAll(c1, Tail(ids))

clear(c) ==
    LET ch == Chain(c)
        c0 == IF ch.fault THEN Fault(c) ELSE c
    IN  IF c.batching
        THEN [EraseAll(c0, ch.ids) EXCEPT !.entity_count = 0]
        ELSE [DestroyAll([c0 EXCEPT !.top_bitmask = {}], ch.ids) EXCEPT
                 !.bucket_bitmask = [b \in BucketIdx |-> NullBits],
                 !.bucket_batch_bitmask = [b \in BucketIdx |-> NullBits],
                 !.bucket_jump_table = [b \in BucketIdx |-> NullJump],
                 !.bucket_components = [b \in BucketIdx |-> NullComp],
                 !.entity_count = 0]

start_batch(c) == [c EXCEPT !.batching = TRUE, !.batch_checklist = <<>>]

\* First loop of finish_batch, from the last entry to the first: an entry
\* whose overlay bit is still set is the latest state of its id and clears
\* the bit, any other entry becomes INVALID_ENTITY.
RECURSIVE DiscardDuplicates(_, _)
DiscardDuplicates(c, ri) ==
    IF ri = 0 THEN c
    ELSE LET id == c.batch_checklist[ri]
             c1 == IF Bit(c.bucket_batch_bitmask, id)
                   THEN [c EXCEPT !.bucket_batch_bitmask[Hi(id)].bits =
                                       @ \ {Lo(id)}]
                   ELSE [c EXCEPT !.batch_checklist[ri] = INVALID_ENTITY]
         IN  DiscardDuplicates(c1, ri - 1)

\* Second loop of finish_batch.
RECURSIVE ApplyChanges(_, _)
ApplyChanges(c, i) ==
    IF i > Len(c.batch_checklist) THEN c
    ELSE LET id == c.batch_checklist[i]
             c1 == IF id = INVALID_ENTITY THEN c
                   ELSE IF Bit(c.bucket_bitmask, id)
                   THEN bucket_erase(
                            jump_table_erase(bitmask_erase(c, id).c, id),
                            id, FALSE)
                   ELSE jump_table_insert(bitmask_insert(c, id), id)
         IN  ApplyChanges(c1, i + 1)

\* finish_batch that drops the changes instead of applying them
finish_batch_unapplied(c) ==
    IF ~c.batching THEN c
    ELSE LET c1 == [c EXCEPT !.batching = FALSE]
             c2 == DiscardDuplicates(c1, Len(c1.batch_checklist))
         IN  [c2 EXCEPT !.batch_checklist = <<>>]

\* finish_batch without its first loop: every checklist entry is applied
finish_batch_keeping_duplicates(c) ==
    IF ~c.batching THEN c
    ELSE LET c1 == [c EXCEPT !.batching = FALSE,
                             !.bucket_batch_bitmask =
                                 [b \in BucketIdx |->
                                     IF @[b].alloc THEN ZeroBits ELSE @[b]]]
             c3 == ApplyChanges(c1, 1)
         IN  [c3 EXCEPT !.batch_checklist = <<>>]

\* The third loop only calls bucket_self_erase and
\* try_jump_table_bucket_erase, which do nothing in this build.  The
\* entries left in batch_checklist are never read again (start_batch sets
\* batch_checklist_size to 0), so the list is kept empty outside a batch.
finish_batch(c) ==
    IF ~c.batching THEN c
    ELSE LET c1 == [c EXCEPT !.batching = FALSE]
             c2 == DiscardDuplicates(c1, Len(c1.batch_checklist))
             c3 == ApplyChanges(c2, 1)
         IN  [c3 EXCEPT !.batch_checklist = <<>>]

\* ------------------------------------------------------------------------
\* ecs (scene)
\* ------------------------------------------------------------------------
VARIABLES
    components,              \* type -> container; created = FALSE is a null slot
    type_keys,               \* types in the order get_component_type_key issued keys
    id_counter,
    reusable_ids,
    post_batch_reusable_ids,
    defer_batch,
    fe,                      \* the foreach call in progress
    crashed,                 \* the process died on a null pointer
    other,                   \* components of a second scene of the process
    ev                       \* event handlers of the scene and what emit called

vars == <<components, type_keys, id_counter, reusable_ids,
          post_batch_reusable_ids, defer_batch, fe, crashed, other, ev>>

Range(s) == {s[k] : k \in 1 .. Len(s)}

\* entity_count is a std::uint32_t.  Its residue mod 2^32 is kept as the
\* representative in -2^31 .. 2^31-1 (-1 stands for 4294967295); ULess is
\* the unsigned order on these representatives.
ULess(a, b) == IF (a < 0) = (b < 0) THEN a < b ELSE b < 0
ULeq(a, b) == a = b \/ ULess(a, b)

\* ecs::get_container that does not start the batch of a new container
get_container_unbatched(comps, depth, T) ==
    IF comps[T].created THEN comps
    ELSE [comps EXCEPT ![T] = [NewContainer(T) EXCEPT !.created = TRUE]]

\* ecs::get_container: creates the container on first use; a container made
\* while a batch is open starts batching at once.
get_container(comps, depth, T) ==
    IF comps[T].created THEN comps
    ELSE LET c == [NewContainer(T) EXCEPT !.created = TRUE]
         IN  [comps EXCEPT ![T] = IF depth > 0 THEN start_batch(c) ELSE c]

get_component_type_key(keys, T) ==
    IF T \in Range(keys) THEN keys ELSE Append(keys, T)

\* The components vector has a slot for every key up to the largest key of
\* the scene's containers.  A slot is null when its key was issued to
\* another scene and this scene made a container for a later key; a scene
\* that is alone in the process has none, its own get_container issues the
\* keys.  ecs::start_batch and ecs::finish_batch call c->start_batch() and
\* c->finish_batch() on every slot, null ones included.
NullSlot(comps, keys) ==
    \E i, j \in 1 .. Len(keys) :
        i < j /\ ~comps[keys[i]].created /\ comps[keys[j]].created

\* for(auto& c: components) over the containers that exist
StartAll(comps) ==
    [T \in Types |-> IF comps[T].created THEN start_batch(comps[T]) ELSE comps[T]]
FinishAll(comps) ==
    [T \in Types |-> IF comps[T].created THEN finish_batch(comps[T]) ELSE comps[T]]
\* The loop of ecs::remove(id) that passes over a container in batch mode
EraseInAll_unbatched(comps, id) ==
    [T \in Types |-> IF comps[T].created /\ ~comps[T].batching
                     THEN erase(comps[T], id) ELSE comps[T]]
EraseInAll(comps, id) ==
    [T \in Types |-> IF comps[T].created THEN erase(comps[T], id) ELSE comps[T]]
ClearAll(comps) ==
    [T \in Types |-> IF comps[T].created THEN clear(comps[T]) ELSE comps[T]]

\* ecs::start_batch that counts the depth and starts no container batch
ecs_start_batch_uncontained(comps, depth) ==
    [comps |-> comps, depth |-> depth + 1]

\* ecs::start_batch.  Returns [comps, depth].
ecs_start_batch(comps, depth) ==
    [comps |-> IF depth + 1 = 1 THEN StartAll(comps) ELSE comps,
     depth |-> depth + 1]

\* ecs::finish_batch that does not clear post_batch_reusable_ids
ecs_finish_batch_undrained(comps, depth, reusable, post) ==
    IF depth > 0
    THEN IF depth - 1 = 0
         THEN [comps |-> FinishAll(comps), depth |-> 0,
               reusable |-> reusable \o post, post |-> post]
         ELSE [comps |-> comps, depth |-> depth - 1,
               reusable |-> reusable, post |-> post]
    ELSE [comps |-> comps, depth |-> depth, reusable |-> reusable, post |-> post]

\* ecs::finish_batch.  Returns [comps, depth, reusable, post].
ecs_finish_batch(comps, depth, reusable, post) ==
    IF depth > 0
    THEN IF depth - 1 = 0
         THEN [comps |-> FinishAll(comps), depth |-> 0,
               reusable |-> reusable \o post, post |-> <<>>]
         ELSE [comps |-> comps, depth |-> depth - 1,
               reusable |-> reusable, post |-> post]
    ELSE [comps |-> comps, depth |-> depth, reusable |-> reusable, post |-> post]

\* The two largest entity ids, 4294967294 and 4294967295, as representatives.
TopIds == {-2, -1}

\* The ids add() has returned and remove() has not been given since: the
\* counter has passed them (all of them once it has wrapped to
\* INVALID_ENTITY) and they wait in neither free list.
Issued(i) ==
    i # INVALID_ENTITY /\ (id_counter = INVALID_ENTITY \/ ULess(i, id_counter))
Live ==
    {i \in AllIds \cup TopIds : Issued(i)}
        \ (Range(reusable_ids) \cup Range(post_batch_reusable_ids))

\* A call is made by the program between foreach calls, or by the callback
\* that a foreach is running; a process that has died makes none, and none
\* is made on a scene that has been destroyed.
CanCall == ~crashed /\ ev.alive

InBounds(comps) ==
    \A T \in Types : Len(comps[T].batch_checklist) <= MaxChecklist

Crash ==
    /\ crashed' = TRUE
    /\ UNCHANGED <<components, type_keys, id_counter, reusable_ids,
                   post_batch_reusable_ids, defer_batch, fe, other, ev>>

\* The state after a call.  The out lists of the call (events, constructor
\* and destructor calls) are effects, not state: they are dropped here.
Done(comps, keys, f, fault) ==
    IF fault \/ \E T \in Types : comps[T].fault
    THEN Crash
    ELSE /\ components' = [T \in Types |-> [comps[T] EXCEPT !.out = <<>>]]
         /\ type_keys' = keys
         /\ fe' = f
         /\ crashed' = FALSE
         /\ other' = other
         /\ ev' = ev

\* fe.pc is "idle", "callback" (the callback is running for entity cur) or
\* "done" (foreach has returned; visited tells what it did) or "thrown" (an
\* exception of the callback has left foreach and was caught by its caller).
NoVisit == [ptrs |-> <<>>, has |-> <<>>, era |-> FALSE, ins |-> FALSE, newins |-> FALSE]
IdleFe ==
    [pc |-> "idle", query |-> <<>>, iters |-> <<>>, pivot |-> 0, adv |-> 0,
     cur |-> 0, now |-> NoVisit, visited |-> <<>>, entry |-> 0,
     mutated |-> FALSE, ins |-> {}, newins |-> {}, era |-> {}]

Called(f) == IF f.pc \in {"done", "thrown"} THEN IdleFe ELSE f

Pairs == Types \X AllIds
View(comps) == {p \in Pairs : contains(comps[p[1]], p[2])}
Occupied(comps) == {p \in Pairs : Bit(comps[p[1]].bucket_bitmask, p[2])}

\* What the callbacks of the running foreach have done so far: ins are the
\* components they made present, newins those of ins whose occupancy bit
\* was clear, era the components they made absent and have not put back.
Mutated(f, before, after) ==
    IF f.pc # "callback" THEN Called(f)
    ELSE LET a == View(after) \ View(before)
             r == View(before) \ View(after)
         IN  [f EXCEPT !.mutated = TRUE,
                       !.ins = @ \cup a,
                       !.newins = @ \cup (a \ Occupied(before)),
                       !.era = (@ \cup r) \ View(after)]

\* Addresses no live component page uses.
FreeAddrs(comps) ==
    Addrs \ {comps[T].bucket_components[b].addr : T \in Types, b \in BucketIdx}

\* ecs::add() without the test for an exhausted counter
ecs_add_unchecked(counter, reusable) ==
    IF Len(reusable) > 0
    THEN [id |-> reusable[Len(reusable)], counter |-> counter,
          reusable |-> SubSeq(reusable, 1, Len(reusable) - 1)]
    ELSE [id |-> counter, counter |-> counter + 1, reusable |-> reusable]

\* entity ecs::add() as a function of the allocator: the id it returns and
\* the allocator it leaves.  entity is a std::uint32_t kept as its
\* representative in -2^31 .. 2^31-1 (see ULess): -1 + 1 = 0 is the wrap of
\* id_counter++ to INVALID_ENTITY.
ecs_add(counter, reusable) ==
    IF Len(reusable) > 0
    THEN [id |-> reusable[Len(reusable)], counter |-> counter,
          reusable |-> SubSeq(reusable, 1, Len(reusable) - 1)]
    ELSE IF counter = INVALID_ENTITY
    THEN [id |-> INVALID_ENTITY, counter |-> counter, reusable |-> reusable]
    ELSE [id |-> counter, counter |-> counter + 1, reusable |-> reusable]

\* ecs::add() that takes every id from the counter and never from the free
\* list
Add_counting ==
    /\ CanCall
    /\ id_counter <= MaxId
    /\ id_counter' = ecs_add(id_counter, <<>>).counter
    /\ Done(components, type_keys, Mutated(fe, components, components), FALSE)
    /\ UNCHANGED <<reusable_ids, post_batch_reusable_ids, defer_batch>>

\* entity ecs::add().  MaxId bounds the ids the counter issues.
Add ==
    /\ CanCall
    /\ Len(reusable_ids) = 0 => id_counter <= MaxId
    /\ id_counter' = ecs_add(id_counter, reusable_ids).counter
    /\ reusable_ids' = ecs_add(id_counter, reusable_ids).reusable
    /\ Done(components, type_keys, Mutated(fe, components, components), FALSE)
    /\ UNCHANGED <<post_batch_reusable_ids, defer_batch>>

\* ecs::emplace<Component>(id, v) / ecs::attach(id, Component{v}) for a
\* Component without dependency_components (try_attach_dependencies has no
\* body for it); addr is the address operator new returns should a
\* component page be allocated.
Emplace(T, id, v, addr) ==
    /\ CanCall
    /\ id \in Live
    /\ LET comps1 == get_container(components, defer_batch, T)
           comps2 == [comps1 EXCEPT ![T] = emplace(@, id, v, addr)]
       IN  /\ InBounds(comps2)
           /\ Done(comps2, get_component_type_key(type_keys, T),
                   Mutated(fe, components, comps2), FALSE)
    /\ UNCHANGED <<id_counter, reusable_ids, post_batch_reusable_ids, defer_batch>>

\* ecs::remove<Component>(id)
Erase(T, id) ==
    /\ CanCall
    /\ id \in Live
    /\ LET comps1 == get_container(components, defer_batch, T)
           comps2 == [comps1 EXCEPT ![T] = erase(@, id)]
       IN  /\ InBounds(comps2)
           /\ Done(comps2, get_component_type_key(type_keys, T),
                   Mutated(fe, components, comps2), FALSE)
    /\ UNCHANGED <<id_counter, reusable_ids, post_batch_reusable_ids, defer_batch>>

\* ecs::remove(id) that hands the id to the active free list at any depth
RemoveEntity_undeferred(id) ==
    /\ CanCall
    /\ id \in Live
    /\ LET comps2 == EraseInAll(components, id)
       IN  /\ InBounds(comps2)
           /\ Done(comps2, type_keys, Mutated(fe, components, comps2), FALSE)
    /\ IF crashed' THEN UNCHANGED <<reusable_ids, post_batch_reusable_ids>>
       ELSE /\ reusable_ids' = Append(reusable_ids, id)
            /\ UNCHANGED post_batch_reusable_ids
    /\ UNCHANGED <<id_counter, defer_batch>>

\* ecs::remove(id)
RemoveEntity(id) ==
    /\ CanCall
    /\ id \in Live
    /\ LET comps2 == EraseInAll(components, id)
       IN  /\ InBounds(comps2)
           /\ Done(comps2, type_keys, Mutated(fe, components, comps2), FALSE)
    /\ IF crashed' THEN UNCHANGED <<reusable_ids, post_batch_reusable_ids>>
       ELSE IF defer_batch = 0
       THEN /\ reusable_ids' = Append(reusable_ids, id)
            /\ UNCHANGED post_batch_reusable_ids
       ELSE /\ post_batch_reusable_ids' = Append(post_batch_reusable_ids, id)
            /\ UNCHANGED reusable_ids
    /\ UNCHANGED <<id_counter, defer_batch>>

\* ecs::clear_entities() that resets the allocator at any depth
ClearEntities_resetting ==
    /\ CanCall
    /\ LET comps2 == ClearAll(components)
       IN  /\ InBounds(comps2)
           /\ Done(comps2, type_keys, Mutated(fe, components, comps2), FALSE)
    /\ IF ~crashed'
       THEN /\ id_counter' = 1
            /\ reusable_ids' = <<>>
            /\ post_batch_reusable_ids' = <<>>
       ELSE UNCHANGED <<id_counter, reusable_ids, post_batch_reusable_ids>>
    /\ UNCHANGED defer_batch

\* ecs::clear_entities()
ClearEntities ==
    /\ CanCall
    /\ LET comps2 == ClearAll(components)
       IN  /\ InBounds(comps2)
           /\ Done(comps2, type_keys, Mutated(fe, components, comps2), FALSE)
    /\ IF ~crashed' /\ defer_batch = 0
       THEN /\ id_counter' = 1
            /\ reusable_ids' = <<>>
            /\ post_batch_reusable_ids' = <<>>
       ELSE UNCHANGED <<id_counter, reusable_ids, post_batch_reusable_ids>>
    /\ UNCHANGED defer_batch

\* ecs::start_batch() called by the program or by a callback
StartBatch ==
    /\ CanCall
    /\ defer_batch < MaxDepth
    /\ LET r == ecs_start_batch(components, defer_batch)
       IN  /\ Done(r.comps, type_keys, Called(fe),
                   r.depth = 1 /\ NullSlot(components, type_keys))
           /\ defer_batch' = IF crashed' THEN defer_batch ELSE r.depth
    /\ UNCHANGED <<id_counter, reusable_ids, post_batch_reusable_ids>>

\* ecs::finish_batch() called by the program, or by a callback to close a
\* batch that this callback opened.
FinishBatch ==
    /\ CanCall
    /\ defer_batch > 0
    /\ fe.pc = "callback" => defer_batch > fe.entry + 1
    /\ LET r == ecs_finish_batch(components, defer_batch, reusable_ids,
                                 post_batch_reusable_ids)
       IN  /\ Done(r.comps, type_keys, Called(fe),
                   r.depth = 0 /\ NullSlot(components, type_keys))
           /\ IF crashed'
              THEN UNCHANGED <<defer_batch, reusable_ids, post_batch_reusable_ids>>
              ELSE /\ defer_batch' = r.depth
                   /\ reusable_ids' = r.reusable
                   /\ post_batch_reusable_ids' = r.post
    /\ UNCHANGED id_counter

\* ------------------------------------------------------------------------
\* ecs::foreach
\* ------------------------------------------------------------------------
\* A query is the callback's parameter list: T& is required, T* optional.
Req(T) == [type |-> T, required |-> TRUE]
Opt(T) == [type |-> T, required |-> FALSE]

Valid(it) == it.current_entity # INVALID_ENTITY

\* (it.iter.try_advance(cur) || !it.required) && ... : left to right, the
\* iterators after the first failing required one are not touched.
RECURSIVE TryAll(_, _, _, _, _)
TryAll(comps, q, iters, id, k) ==
    IF k > Len(q) THEN [iters |-> iters, ok |-> TRUE]
    ELSE LET r == try_advance(comps[q[k].type], iters[k], id)
             iters1 == [iters EXCEPT ![k] = r.it]
         IN  IF r.ok \/ ~q[k].required
             THEN TryAll(comps, q, iters1, id, k + 1)
             ELSE [iters |-> iters1, ok |-> FALSE]

ForeachFault == [kind |-> "fault", iters |-> <<>>, adv |-> 0, cur |-> 0]

\* The generic loop from its head to the next call of the callback or to
\* its end.
RECURSIVE GenericLoop(_, _, _, _, _, _)
GenericLoop(comps, q, iters, pivot, adv, fuel) ==
    IF adv = INVALID_ENTITY
    THEN [kind |-> "end", iters |-> iters, adv |-> adv, cur |-> 0]
    ELSE IF fuel = 0 THEN ForeachFault
    ELSE LET t == TryAll(comps, q, iters, adv, 1)
         IN  IF t.ok
             THEN [kind |-> "call", iters |-> t.iters, adv |-> adv, cur |-> adv]
             ELSE LET a == advance(comps[q[pivot].type], adv)
                  IN  IF a.fault THEN ForeachFault
                      ELSE GenericLoop(comps, q, t.iters, pivot, a.e, fuel - 1)

AllOptional(q) == \A k \in 1 .. Len(q) : ~q[k].required

\* The head of the loop the query selects.
LoopHead(comps, q, iters, pivot, adv) ==
    IF Len(q) = 1
    THEN IF Valid(iters[1])
         THEN [kind |-> "call", iters |-> iters, adv |-> adv,
               cur |-> iters[1].current_entity]
         ELSE [kind |-> "end", iters |-> iters, adv |-> adv, cur |-> 0]
    ELSE IF AllOptional(q)
    THEN IF \E k \in 1 .. Len(q) : Valid(iters[k])
         THEN [kind |-> "call", iters |-> iters, adv |-> adv,
               cur |-> Min({iters[k].current_entity :
                              k \in {j \in 1 .. Len(q) : Valid(iters[j])}})]
         ELSE [kind |-> "end", iters |-> iters, adv |-> adv, cur |-> 0]
    ELSE GenericLoop(comps, q, iters, pivot, adv, WalkFuel)

\* From the return of the callback to the head of the loop: ++it of the
\* iterators that stand on cur, or advancer.advance().
\* Returns [iters, adv, fault].
LoopStep(comps, q, iters, pivot, adv, cur) ==
    IF Len(q) = 1 \/ AllOptional(q)
    THEN LET on == {k \in 1 .. Len(q) :
                       Valid(iters[k]) /\ iters[k].current_entity = cur}
             nx == [k \in 1 .. Len(q) |->
                       advance(comps[q[k].type], iters[k].current_entity)]
         IN  [iters |-> [k \in 1 .. Len(q) |->
                           IF k \in on THEN iterator(comps[q[k].type], nx[k].e)
                           ELSE iters[k]],
              adv |-> adv,
              fault |-> \E k \in on : nx[k].fault]
    ELSE LET a == advance(comps[q[pivot].type], adv)
         IN  [iters |-> iters, adv |-> a.e, fault |-> a.fault]

\* The iterator whose advancer drives the generic loop: the last required
\* one whose container has the least size().
Pivot(comps, q) ==
    LET req == {k \in 1 .. Len(q) : q[k].required}
        least == {k \in req : \A j \in req :
                     ULeq(size(comps[q[k].type]), size(comps[q[j].type]))}
    IN  IF req = {} THEN 0 ELSE Max(least)

\* The arguments of one call of the callback: ptrs[k] tells whether the
\* k-th argument points to a component (a reference does, a pointer may be
\* null), has[k] what has<T>(cur) returns as the callback is entered.
Visit(comps, f, q, iters, cur) ==
    LET passed == {k \in 1 .. Len(q) : iters[k].current_entity = cur}
    IN  [ptrs |-> [k \in 1 .. Len(q) |-> k \in passed],
         has |-> [k \in 1 .. Len(q) |-> contains(comps[q[k].type], cur)],
         era |-> \E k \in passed : q[k].required /\ <<q[k].type, cur>> \in f.era,
         ins |-> \E k \in passed : <<q[k].type, cur>> \in f.ins,
         newins |-> \E k \in passed : <<q[k].type, cur>> \in f.newins]

\* The loop has reached h: either the callback is entered, or the loop is
\* over and foreach calls ctx.finish_batch() and returns.
Arrive(comps, keys, f, h) ==
    IF h.kind = "fault" THEN Crash
    ELSE IF h.kind = "call"
    THEN /\ Done(comps, keys,
                 [f EXCEPT !.pc = "callback", !.iters = h.iters, !.adv = h.adv,
                           !.cur = h.cur, !.visited = Append(@, h.cur),
                           !.now = Visit(comps, f, f.query, h.iters, h.cur)],
                 FALSE)
         /\ defer_batch' = IF crashed' THEN defer_batch ELSE f.entry + 1
         /\ UNCHANGED <<id_counter, reusable_ids, post_batch_reusable_ids>>
    ELSE LET r == ecs_finish_batch(comps, f.entry + 1, reusable_ids,
                                   post_batch_reusable_ids)
         IN  /\ Done(r.comps, keys,
                     [f EXCEPT !.pc = "done", !.iters = <<>>, !.adv = 0, !.cur = 0,
                               !.pivot = 0, !.now = NoVisit, !.ins = {},
                               !.newins = {}, !.era = {}],
                     FALSE)
             /\ IF crashed'
                THEN UNCHANGED <<defer_batch, reusable_ids, post_batch_reusable_ids>>
                ELSE /\ defer_batch' = r.depth
                     /\ reusable_ids' = r.reusable
                     /\ post_batch_reusable_ids' = r.post
             /\ UNCHANGED id_counter

RECURSIVE MakeContainers(_, _, _)
MakeContainers(comps, depth, ts) ==
    IF ts = <<>> THEN comps
    ELSE MakeContainers(get_container(comps, depth, Head(ts)), depth, Tail(ts))

RECURSIVE MakeKeys(_, _)
MakeKeys(keys, ts) ==
    IF ts = <<>> THEN keys
    ELSE MakeKeys(get_component_type_key(keys, Head(ts)), Tail(ts))

Reverse(s) == [k \in 1 .. Len(s) |-> s[Len(s) + 1 - k]]

\* foreach(f) up to the first call of f.  The order in which the arguments
\* of the tuple constructor are evaluated is unspecified: order is one of
\* the orders in which make_iterator may reach the containers.
ForeachBegin(q, order) ==
    /\ ~crashed
    /\ fe.pc # "callback"
    /\ defer_batch < MaxDepth
    /\ LET ts == [k \in 1 .. Len(q) |-> q[k].type]
           r == ecs_start_batch(components, defer_batch)
           comps == MakeContainers(r.comps, r.depth, ts)
           keys == MakeKeys(type_keys, IF order THEN ts ELSE Reverse(ts))
           b == [k \in 1 .. Len(q) |-> begin(comps[ts[k]])]
           iters == [k \in 1 .. Len(q) |-> b[k].it]
           pivot == Pivot(comps, q)
           adv == IF Len(q) = 1 \/ AllOptional(q) THEN 0
                  ELSE iters[pivot].current_entity
           f == [IdleFe EXCEPT !.query = q, !.pivot = pivot, !.entry = defer_batch]
       IN  IF \E k \in 1 .. Len(q) : b[k].fault THEN Crash
           ELSE Arrive(comps, keys, f, LoopHead(comps, q, iters, pivot, adv))

\* The callback returns and the loop goes on.
ForeachReturn ==
    /\ ~crashed
    /\ fe.pc = "callback"
    /\ defer_batch = fe.entry + 1
    /\ LET s == LoopStep(components, fe.query, fe.iters, fe.pivot, fe.adv, fe.cur)
       IN  IF s.fault THEN Crash
           ELSE Arrive(components, type_keys, fe,
                       LoopHead(components, fe.query, s.iters, fe.pivot, s.adv))

\* The callback throws.  foreach has no handler and no object whose
\* destructor would run: the exception leaves foreach between
\* ctx.start_batch() and ctx.finish_batch(), and the caller catches it.
ForeachThrow ==
    /\ ~crashed
    /\ fe.pc = "callback"
    /\ defer_batch = fe.entry + 1
    /\ Done(components, type_keys,
            [fe EXCEPT !.pc = "thrown", !.iters = <<>>, !.adv = 0, !.cur = 0,
                       !.pivot = 0, !.now = NoVisit],
            FALSE)
    /\ UNCHANGED <<id_counter, reusable_ids, post_batch_reusable_ids, defer_batch>>

\* The whole loop of foreach when the callback changes nothing: the ids
\* passed to the callback with the non-null arguments of each call, from
\* the position <<iters, adv>> on.  Returns [calls, fault].
RECURSIVE Traverse(_, _, _, _, _, _)
Traverse(comps, q, iters, pivot, adv, fuel) ==
    IF fuel = 0 THEN [calls |-> <<>>, fault |-> TRUE]
    ELSE IF LoopHead(comps, q, iters, pivot, adv).kind = "fault"
    THEN [calls |-> <<>>, fault |-> TRUE]
    ELSE IF LoopHead(comps, q, iters, pivot, adv).kind = "end"
    THEN [calls |-> <<>>, fault |-> FALSE]
    ELSE LET h == LoopHead(comps, q, iters, pivot, adv)
             s == LoopStep(comps, q, h.iters, pivot, h.adv, h.cur)
             rest == IF s.fault THEN [calls |-> <<>>, fault |-> TRUE]
                     ELSE Traverse(comps, q, s.iters, pivot, s.adv, fuel - 1)
         IN  [calls |-> <<[id |-> h.cur,
                           ptrs |-> {k \in 1 .. Len(q) :
                                       h.iters[k].current_entity = h.cur}]>>
                        \o rest.calls,
              fault |-> rest.fault]

\* foreach with the advancer taken from the pivot-th iterator.
TraverseFrom(comps, q, pivot) ==
    IF \E k \in 1 .. Len(q) : begin(comps[q[k].type]).fault
    THEN [calls |-> <<>>, fault |-> TRUE]
    ELSE Traverse(comps, q,
                  [k \in 1 .. Len(q) |-> begin(comps[q[k].type]).it],
                  pivot,
                  begin(comps[q[pivot].type]).it.current_entity,
                  WalkFuel)

\* ------------------------------------------------------------------------
\* concat: the components of another scene copied into this one
\* ------------------------------------------------------------------------
RECURSIVE Ascending(_)
Ascending(S) == IF S = {} THEN <<>> ELSE <<Min(S)>> \o Ascending(S \ {Min(S)})

\* n calls of add() in a row: the ids in the order returned.
RECURSIVE AddN(_, _, _)
AddN(counter, reusable, n) ==
    IF n = 0 THEN [ids |-> <<>>, counter |-> counter, reusable |-> reusable]
    ELSE LET r == ecs_add(counter, reusable)
             rest == AddN(r.counter, r.reusable, n - 1)
         IN  [rest EXCEPT !.ids = <<r.id>> \o @]

\* list_entities of every container of the other scene: the keys of the
\* translation table.  The table is kept as [from, to], the keys in
\* ascending order and the id add() returned for each.
At(table, e) == table.to[CHOOSE k \in 1 .. Len(table.from) : table.from[k] = e]
ListEntities(oth) ==
    UNION {Range(Chain(oth[T]).ids) : T \in {U \in Types : oth[U].created}}

\* component_container<T>::concat: target.emplace<T>(translation_table.at(id),
\* value) for every entity of the container src, in the order of its cursor.
RECURSIVE ConcatInto(_, _, _, _, _)
ConcatInto(comps, depth, src, ids, table) ==
    IF ids = <<>> THEN comps
    ELSE LET c1 == get_container(comps, depth, src.type)
             free == FreeAddrs(c1)
             c2 == [c1 EXCEPT ![src.type] =
                       emplace(@, At(table, Head(ids)), Slot(src, Head(ids)),
                               IF free = {} THEN 0 ELSE Min(free))]
         IN  ConcatInto(c2, depth, src, Tail(ids), table)

\* for(auto& c: other.components) if(c) c->concat(*this, translation_table),
\* the slots in the order of their keys; the body of
\* component_container<T>::concat is empty for a T that is not copy
\* constructible.
RECURSIVE ConcatAll(_, _, _, _, _)
ConcatAll(comps, depth, oth, keys, table) ==
    IF keys = <<>> THEN comps
    ELSE LET src == oth[Head(keys)]
             c1 == IF src.created /\ is_copy_constructible(src.type)
                   THEN ConcatInto(comps, depth, src, Chain(src).ids, table)
                   ELSE comps
         IN  ConcatAll(c1, depth, oth, Tail(keys), table)

\* ecs::concat(other), its steps in the order of the source, each step
\* handing what it made to the next one.  Returns [comps, depth, counter,
\* reusable, post, table, batch, fault]: batch are the containers as
\* finish_batch found them, fault tells that start_batch or finish_batch
\* met a null slot.
\* finish_batch() and the return.
ConcatFinish(comps, keys, sb, a, table, cc, fb) ==
    [comps |-> fb.comps, depth |-> fb.depth, counter |-> a.counter,
     reusable |-> fb.reusable, post |-> fb.post, table |-> table,
     batch |-> cc,
     fault |-> \/ sb.depth = 1 /\ NullSlot(comps, keys)
               \/ fb.depth = 0 /\ NullSlot(cc, keys)]
\* for(auto& c: other.components) if(c) c->concat(*this, translation_table)
ConcatCopy(comps, keys, sb, a, table, cc, post) ==
    ConcatFinish(comps, keys, sb, a, table, cc,
                 ecs_finish_batch(cc, sb.depth, a.reusable, post))
\* for(auto& pair: translation_table) pair.second = add(); the table is a
\* std::map, so add() is called for the other scene's ids in ascending
\* order.
ConcatAdd(comps, keys, sb, ents, a, post, oth) ==
    ConcatCopy(comps, keys, sb, a, [from |-> ents, to |-> a.ids],
               ConcatAll(sb.comps, sb.depth, oth, keys,
                         [from |-> ents, to |-> a.ids]),
               post)
\* list_entities and start_batch()
ConcatList(comps, keys, sb, ents, counter, reusable, post, oth) ==
    ConcatAdd(comps, keys, sb, ents, AddN(counter, reusable, Len(ents)),
              post, oth)
ecs_concat(comps, keys, depth, counter, reusable, post, oth) ==
    ConcatList(comps, keys, ecs_start_batch(comps, depth),
               Ascending(ListEntities(oth)), counter, reusable, post, oth)

\* The state after concat returned r.
ConcatDone(r) ==
    /\ InBounds(r.batch)
    /\ Done(r.comps, type_keys, Called(fe), r.fault)
    /\ IF crashed'
       THEN UNCHANGED <<id_counter, reusable_ids, post_batch_reusable_ids>>
       ELSE /\ id_counter' = r.counter
            /\ reusable_ids' = r.reusable
            /\ post_batch_reusable_ids' = r.post
    /\ UNCHANGED defer_batch

\* concat(other) called by the program with other not batching.  The ids
\* add() hands out stay within the pages of the model.
Concat ==
    /\ CanCall
    /\ fe.pc # "callback"
    /\ Range(AddN(id_counter, reusable_ids,
                  Cardinality(ListEntities(other))).ids) \subseteq Ids
    /\ ConcatDone(ecs_concat(components, type_keys, defer_batch, id_counter,
                             reusable_ids, post_batch_reusable_ids, other))

\* other.attach(id, Component{v}) on an id that other.add() returned.
OtherEmplace(T, id, v) ==
    /\ CanCall
    /\ fe.pc # "callback"
    /\ LET o1 == get_container(other, 0, T)
           o2 == [o1 EXCEPT ![T] = emplace(@, id, v, Min(FreeAddrs(o1)))]
       IN  /\ ~o2[T].fault
           /\ other' = [U \in Types |-> [o2[U] EXCEPT !.out = <<>>]]
    /\ type_keys' = get_component_type_key(type_keys, T)
    /\ UNCHANGED <<components, id_counter, reusable_ids,
                   post_batch_reusable_ids, defer_batch, fe, crashed, ev>>

\* ------------------------------------------------------------------------
\* copy: one entity of another scene copied into this one
\* ------------------------------------------------------------------------
\* component_container<T>::copy whose body is compiled for every T
container_copy_any(comps, depth, src, result_id, original_id) ==
    IF Get(src, original_id) # NullPtr
    THEN LET c1 == get_container(comps, depth, src.type)
             free == FreeAddrs(c1)
         IN  [c1 EXCEPT ![src.type] =
                 emplace(@, result_id, Slot(src, original_id),
                         IF free = {} THEN 0 ELSE Min(free))]
    ELSE comps

\* component_container<T>::copy(target, result_id, original_id): for a copy
\* constructible T, target.emplace<T>(result_id, *comp) when operator[] of
\* this container finds a component at original_id.
container_copy(comps, depth, src, result_id, original_id) ==
    IF is_copy_constructible(src.type) /\ Get(src, original_id) # NullPtr
    THEN LET c1 == get_container(comps, depth, src.type)
             free == FreeAddrs(c1)
         IN  [c1 EXCEPT ![src.type] =
                 emplace(@, result_id, Slot(src, original_id),
                         IF free = {} THEN 0 ELSE Min(free))]
    ELSE comps

\* for(auto& c: other.components) if(c) c->copy(*this, id, other_id), the
\* slots in the order of their keys.
RECURSIVE CopyAll(_, _, _, _, _, _)
CopyAll(comps, depth, oth, keys, id, other_id) ==
    IF keys = <<>> THEN comps
    ELSE CopyAll(IF oth[Head(keys)].created
                 THEN container_copy(comps, depth, oth[Head(keys)], id, other_id)
                 ELSE comps,
                 depth, oth, Tail(keys), id, other_id)

\* entity ecs::copy(other, other_id): [id, comps, counter, reusable].
ecs_copy(comps, keys, depth, counter, reusable, oth, other_id) ==
    [id |-> ecs_add(counter, reusable).id,
     comps |-> CopyAll(comps, depth, oth, keys,
                       ecs_add(counter, reusable).id, other_id),
     counter |-> ecs_add(counter, reusable).counter,
     reusable |-> ecs_add(counter, reusable).reusable]

\* copy(other, b) called by the program or by a callback, with other not
\* batching.  The id add() hands out stays within the pages of the model.
Copy(b) ==
    /\ CanCall
    /\ ecs_add(id_counter, reusable_ids).id \in Ids
    /\ InBounds(ecs_copy(components, type_keys, defer_batch, id_counter,
                         reusable_ids, other, b).comps)
    /\ Done(ecs_copy(components, type_keys, defer_batch, id_counter,
                     reusable_ids, other, b).comps,
            type_keys,
            Mutated(fe, components,
                    ecs_copy(components, type_keys, defer_batch, id_counter,
                             reusable_ids, other, b).comps),
            FALSE)
    /\ id_counter' = ecs_add(id_counter, reusable_ids).counter
    /\ reusable_ids' = ecs_add(id_counter, reusable_ids).reusable
    /\ UNCHANGED <<post_batch_reusable_ids, defer_batch>>

\* ------------------------------------------------------------------------
\* Components with dependencies
\* ------------------------------------------------------------------------
\* get_container<T>().insert(id, T{v}) of ecs::attach on the containers
\* comps; operator new returns the lowest free address.
attach_one(comps, depth, T, id, v) ==
    LET c1 == get_container(comps, depth, T)
        free == FreeAddrs(c1)
    IN  [c1 EXCEPT ![T] = emplace(@, id, v, IF free = {} THEN 0 ELSE Min(free))]

\* The step of ensure_dependency_components_exist that attaches a default
\* constructed component whether or not the entity has one
ensure_dependency_always(comps, depth, U, id) ==
    attach_one(comps, depth, U, id, DefaultValue)

\* ctx.has<U>(id) ? void() : ctx.attach(id, U()); has<U>() makes the
\* container of U.
ensure_dependency(comps, depth, U, id) ==
    IF contains(get_container(comps, depth, U)[U], id)
    THEN get_container(comps, depth, U)
    ELSE attach_one(comps, depth, U, id, DefaultValue)

\* dependency_components<...>::ensure_dependency_components_exist(id, ctx):
\* the fold over the dependencies in the order of the template arguments.
RECURSIVE ensure_dependency_components_exist(_, _, _, _)
ensure_dependency_components_exist(comps, depth, deps, id) ==
    IF deps = <<>> THEN comps
    ELSE ensure_dependency_components_exist(
             ensure_dependency(comps, depth, Head(deps), id),
             depth, Tail(deps), id)

\* ecs::try_attach_dependencies<T>(id)
try_attach_dependencies(comps, depth, T, id) ==
    ensure_dependency_components_exist(comps, depth, dependencies(T), id)

\* The type keys after the containers of the types of ts were asked for in
\* turn.
RECURSIVE KeysOf(_, _)
KeysOf(keys, ts) ==
    IF ts = <<>> THEN keys
    ELSE KeysOf(get_component_type_key(keys, Head(ts)), Tail(ts))

\* ecs::attach(id, T{v}): the dependencies of T first, then T itself.
ecs_attach(comps, depth, T, id, v) ==
    attach_one(try_attach_dependencies(comps, depth, T, id), depth, T, id, v)

Attach(T, id, v) ==
    /\ CanCall
    /\ id \in Live
    /\ InBounds(ecs_attach(components, defer_batch, T, id, v))
    /\ Done(ecs_attach(components, defer_batch, T, id, v),
            KeysOf(type_keys, dependencies(T) \o <<T>>),
            Mutated(fe, components,
                    ecs_attach(components, defer_batch, T, id, v)),
            FALSE)
    /\ UNCHANGED <<id_counter, reusable_ids, post_batch_reusable_ids, defer_batch>>

\* ------------------------------------------------------------------------
\* Events: handlers, subscriptions and emit
\* ------------------------------------------------------------------------
\* Event types: test_event_1, test_event_2 and
\* remove_component<test_component_normal>.
TestEvent1 == 1
TestEvent2 == 2
RemoveNormal == 3
EventTypes == {TestEvent1, TestEvent2, RemoveNormal}
\* get_event_type_key<Event>(): the keys in the order of first use, here
\* the order of the numbers.
get_event_type_key(E) == E - 1

MaxSubscriptions == 3

\* ev.event_handlers is the vector of vectors of the scene, a handler being
\* [subscription_id, callback]; a callback is named by the subscription and
\* its place among the arguments that registered it.  ev.made (per
\* subscription id + 1, the event types of its callbacks), ev.removed (the
\* subscriptions destroyed or removed) and ev.calls (the callbacks the last
\* emit invoked, in order, ev.emitted being its event type) record what the
\* program did and saw.  ev.alive ends with the destructor of the scene,
\* which leaves in ev.removes the remove_component events emitted while
\* event_handlers existed, in ev.calls the callbacks they reached, each
\* with the id of its event, and in ev.late the remove_component events
\* signalled after event_handlers was destroyed.
NoHandlers ==
    [event_handlers |-> <<>>, subscriber_counter |-> 0, made |-> <<>>,
     removed |-> {}, calls |-> <<>>, emitted |-> 0,
     alive |-> TRUE, removes |-> <<>>, late |-> <<>>]

\* ecs::emit that takes the handlers of key 0 whatever the event type
ecs_emit_any(handlers, E) ==
    IF Len(handlers) = 0 THEN <<>>
    ELSE [k \in 1 .. Len(handlers[1]) |-> handlers[1][k].callback]

\* ecs::emit<EventType>(event): the callbacks invoked, in order.
ecs_emit(handlers, E) ==
    IF Len(handlers) <= get_event_type_key(E) THEN <<>>
    ELSE [k \in 1 .. Len(handlers[get_event_type_key(E) + 1]) |->
             handlers[get_event_type_key(E) + 1][k].callback]

\* ecs::get_handler_count<EventType>()
get_handler_count(handlers, E) ==
    IF Len(handlers) <= get_event_type_key(E) THEN 0
    ELSE Len(handlers[get_event_type_key(E) + 1])

\* event_handlers.resize(key+1) when event_handlers.size() <= key
Resized(handlers, key) ==
    handlers \o [k \in 1 .. (key + 1 - Len(handlers)) |-> <<>>]

\* ecs::internal_add_handler / internal_bind_handler for the k-th callback
\* of subscription id, which takes events of type E.
internal_add_handler(handlers, id, k, E) ==
    [Resized(handlers, get_event_type_key(E)) EXCEPT
        ![get_event_type_key(E) + 1] =
            Append(@, [subscription_id |-> id, callback |-> <<id, k>>])]

RECURSIVE AddHandlers(_, _, _, _)
AddHandlers(handlers, id, cbs, k) ==
    IF k > Len(cbs) THEN handlers
    ELSE AddHandlers(internal_add_handler(handlers, id, k, cbs[k]), id, cbs, k + 1)

\* ecs::add_event_handler(callbacks...) / bind_event_handler / subscribe /
\* add_receiver: cbs are the event types of the callbacks in the order of
\* the arguments.
add_event_handler(e, cbs) ==
    [e EXCEPT !.subscriber_counter = @ + 1,
              !.event_handlers = AddHandlers(@, e.subscriber_counter, cbs, 1),
              !.made = Append(@, cbs)]

\* type_event_handlers.erase(it); break; for the first handler of the
\* subscription in one vector.
EraseFirst(list, id) ==
    IF \E k \in 1 .. Len(list) : list[k].subscription_id = id
    THEN LET k == Min({j \in 1 .. Len(list) : list[j].subscription_id = id})
         IN  SubSeq(list, 1, k - 1) \o SubSeq(list, k + 1, Len(list))
    ELSE list

\* ecs::remove_event_handler(id), which ~event_subscription and so the
\* destructor of a receiver call.
remove_event_handler(handlers, id) ==
    [key \in 1 .. Len(handlers) |-> EraseFirst(handlers[key], id)]

\* The callback lists a program subscribes with: a receiver of one or of
\* two event types, and two functions that take the same event type.
CallbackLists ==
    {<<TestEvent1>>, <<TestEvent2>>, <<TestEvent1, TestEvent2>>,
     <<TestEvent1, TestEvent1>>}

EventStep(e) ==
    /\ CanCall
    /\ ev' = e
    /\ UNCHANGED <<components, type_keys, id_counter, reusable_ids,
                   post_batch_reusable_ids, defer_batch, fe, crashed, other>>

AddEventHandler(cbs) ==
    /\ ev.subscriber_counter < MaxSubscriptions
    /\ EventStep(add_event_handler(ev, cbs))

RemoveEventHandler(id) ==
    /\ id < ev.subscriber_counter
    /\ EventStep([ev EXCEPT
           !.event_handlers = remove_event_handler(@, id),
           !.removed = @ \cup {id}])

EmitEvent(E) ==
    EventStep([ev EXCEPT !.calls = ecs_emit(ev.event_handlers, E),
                         !.emitted = E])

\* ------------------------------------------------------------------------
\* ecs::~ecs
\* ------------------------------------------------------------------------
\* The signal_remove calls among the effects of a call, in order.
RECURSIVE Signals(_)
Signals(out) ==
    IF out = <<>> THEN <<>>
    ELSE (IF Head(out).kind = "remove"
          THEN <<[type |-> Head(out).type, id |-> Head(out).id]>> ELSE <<>>)
             \o Signals(Tail(out))

\* The signals of the containers in the order of their slots.
RECURSIVE SignalsOf(_, _)
SignalsOf(comps, keys) ==
    IF keys = <<>> THEN <<>>
    ELSE Signals(comps[Head(keys)].out) \o SignalsOf(comps, Tail(keys))

\* ctx->emit(remove_component<T>{id, data}) for each signal: the callbacks
\* reached, each with the id of the event.  Of the remove_component types
\* the one of test_component_normal has an event type that programs
\* subscribe to.
RECURSIVE Delivered(_, _)
Delivered(signals, handlers) ==
    IF signals = <<>> THEN <<>>
    ELSE (IF Head(signals).type = NormalType
          THEN [k \in 1 .. Len(ecs_emit(handlers, RemoveNormal)) |->
                   <<ecs_emit(handlers, RemoveNormal)[k], Head(signals).id>>]
          ELSE <<>>)
             \o Delivered(Tail(signals), handlers)

\* component_container::~component_container -> destroy(): finish_batch()
\* when batching, then clear().
destroy(c) == clear(finish_batch(c))

\* The body of ecs::~ecs(): clear_entities().
ecs_destructor_body(comps) == ClearAll(comps)

\* The members are destroyed after the body in the reverse order of their
\* declaration: event_handlers first, then components, each container by
\* destroy().
DestroyMembers(comps) ==
    [T \in Types |->
        IF comps[T].created THEN destroy([comps[T] EXCEPT !.out = <<>>])
        ELSE comps[T]]

\* The scene goes out of scope, not from inside a callback of its foreach.
\* A signal_remove of a container destructor calls ctx->emit on the
\* destroyed event_handlers: the process may die there.
Destroy ==
    /\ CanCall
    /\ fe.pc # "callback"
    /\ ~\E T \in Types : ecs_destructor_body(components)[T].fault
    /\ ev' = [ev EXCEPT
           !.alive = FALSE,
           !.removes = SignalsOf(ecs_destructor_body(components), type_keys),
           !.calls = Delivered(SignalsOf(ecs_destructor_body(components),
                                         type_keys),
                               ev.event_handlers),
           !.emitted = RemoveNormal,
           !.late = SignalsOf(DestroyMembers(ecs_destructor_body(components)),
                              type_keys),
           !.event_handlers = <<>>]
    /\ components' = [T \in Types |-> NewContainer(T)]
    /\ crashed' \in IF ev'.late = <<>> THEN {FALSE} ELSE BOOLEAN
    /\ UNCHANGED <<type_keys, id_counter, reusable_ids,
                   post_batch_reusable_ids, defer_batch, fe, other>>

\* ------------------------------------------------------------------------
\* Specifications
\* ------------------------------------------------------------------------
Init ==
    /\ components = [T \in Types |-> NewContainer(T)]
    /\ type_keys = <<>>
    /\ id_counter = 1
    /\ reusable_ids = <<>>
    /\ post_batch_reusable_ids = <<>>
    /\ defer_batch = 0
    /\ fe = IdleFe
    /\ crashed = FALSE
    /\ other = [T \in Types |-> NewContainer(T)]
    /\ ev = NoHandlers

\* operator new returns the lowest free address
NextAddr == Min(FreeAddrs(components))

\* The scene with one component type, batches opened by the program.
NextScene ==
    \/ Add
    \/ \E id \in Ids, v \in Values : Emplace(NormalType, id, v, NextAddr)
    \/ \E id \in Ids : Erase(NormalType, id)
    \/ \E id \in Ids : RemoveEntity(id)
    \/ ClearEntities
    \/ StartBatch
    \/ FinishBatch

SpecScene == Init /\ [][NextScene]_vars

\* One container under emplace and erase, in and out of program batches.
NextBatch ==
    \/ Add
    \/ \E id \in Ids, v \in Values : Emplace(NormalType, id, v, NextAddr)
    \/ \E id \in Ids : Erase(NormalType, id)
    \/ StartBatch
    \/ FinishBatch

SpecBatch == Init /\ [][NextBatch]_vars

\* foreach over one component type; its callbacks make any of the calls.
NextForeach ==
    \/ Add
    \/ \E id \in Ids : Emplace(NormalType, id, 1, NextAddr)
    \/ \E id \in Ids : Erase(NormalType, id)
    \/ \E id \in Ids : RemoveEntity(id)
    \/ ClearEntities
    \/ StartBatch
    \/ FinishBatch
    \/ ForeachBegin(<<Req(NormalType)>>, TRUE)
    \/ ForeachReturn

SpecForeach == Init /\ [][NextForeach]_vars

\* foreach joining two component types: the program inserts, the callbacks
\* erase.
Queries ==
    { <<Req(NormalType), Req(TagType)>>, <<Req(NormalType), Opt(TagType)>>,
      <<Opt(NormalType), Opt(TagType)>> }

JoinTypes == {NormalType, TagType}

NextJoin ==
    \/ Add
    \/ fe.pc # "callback" /\ \E T \in JoinTypes, id \in Ids : Emplace(T, id, 1, NextAddr)
    \/ fe.pc = "callback" /\ \E T \in JoinTypes, id \in Ids : Erase(T, id)
    \/ \E q \in Queries, order \in BOOLEAN : ForeachBegin(q, order)
    \/ ForeachReturn

SpecJoin == Init /\ [][NextJoin]_vars

\* A scene in which add() has issued the ids up to FarId, whose page index
\* lies beyond the initial page arrays; operator new returns any free
\* address.
GrowIds == {1, FarId}

InitGrown ==
    /\ components = [T \in Types |-> NewContainer(T)]
    /\ type_keys = <<>>
    /\ id_counter = FarId + 1
    /\ reusable_ids = <<>>
    /\ post_batch_reusable_ids = <<>>
    /\ defer_batch = 0
    /\ fe = IdleFe
    /\ crashed = FALSE
    /\ other = [T \in Types |-> NewContainer(T)]
    /\ ev = NoHandlers

NextGrow ==
    \/ \E id \in GrowIds, addr \in FreeAddrs(components) :
          Emplace(NormalType, id, 1, addr)
    \/ \E id \in GrowIds : Erase(NormalType, id)
    \/ StartBatch
    \/ FinishBatch

SpecGrow == InitGrown /\ [][NextGrow]_vars

\* The entity allocator alone, on a fresh scene and on one in which add()
\* has issued all ids but the two largest, no component attached.
AllocIds == Ids \cup TopIds

InitAlloc ==
    /\ components = [T \in Types |-> NewContainer(T)]
    /\ type_keys = <<>>
    /\ id_counter \in {1, -2}
    /\ reusable_ids = <<>>
    /\ post_batch_reusable_ids = <<>>
    /\ defer_batch = 0
    /\ fe = IdleFe
    /\ crashed = FALSE
    /\ other = [T \in Types |-> NewContainer(T)]
    /\ ev = NoHandlers

NextAlloc ==
    \/ Add
    \/ \E id \in AllocIds : RemoveEntity(id)
    \/ ClearEntities
    \/ StartBatch
    \/ FinishBatch

SpecAlloc == InitAlloc /\ [][NextAlloc]_vars

\* Scenes that are cleared, in and out of batches: a fresh scene, and one
\* whose counter is about to be exhausted.
NextClear ==
    \/ Add
    \/ \E id \in Ids : Emplace(NormalType, id, 1, NextAddr)
    \/ \E id \in Ids : RemoveEntity(id)
    \/ ClearEntities
    \/ StartBatch
    \/ FinishBatch

SpecClear == InitAlloc /\ [][NextClear]_vars

\* Two scenes: this one takes copyable and non-copyable components and
\* batches, the other one is filled and then concatenated into it.
OtherValue == 2
NextConcat ==
    \/ Add
    \/ \E id \in Ids : Emplace(NormalType, id, 1, NextAddr)
    \/ Emplace(UncopiableType, 1, 1, NextAddr)
    \/ \E id \in Ids : OtherEmplace(NormalType, id, OtherValue)
    \/ OtherEmplace(UncopiableType, 1, OtherValue)
    \/ StartBatch
    \/ FinishBatch
    \/ Concat

SpecConcat == Init /\ [][NextConcat]_vars

\* Two scenes: the other one gets a tag on one entity and a copyable and a
\* non-copyable component on another, and its entities are copied one by
\* one into this one, which removes its first entity and batches.
CopyIds == Ids \cup {INVALID_ENTITY}
NextCopy ==
    \/ OtherEmplace(NormalType, 2, OtherValue)
    \/ OtherEmplace(UncopiableType, 2, OtherValue)
    \/ OtherEmplace(TagType, 1, OtherValue)
    \/ \E b \in CopyIds : Copy(b)
    \/ RemoveEntity(1)
    \/ StartBatch
    \/ FinishBatch

SpecCopy == Init /\ [][NextCopy]_vars

\* One scene with a component that has dependencies: the program attaches
\* it to its first entity, before or after one of the dependencies,
\* removes it alone or with the entity, and batches.
NextDeps ==
    \/ Add
    \/ Attach(DependencyType, 1, 1)
    \/ Emplace(NormalType, 1, 1, NextAddr)
    \/ Erase(DependencyType, 1)
    \/ RemoveEntity(1)
    \/ StartBatch
    \/ FinishBatch

SpecDeps == Init /\ [][NextDeps]_vars

\* The events test: receivers and handlers come and go, events are emitted
\* in between.
NextEvents ==
    \/ \E cbs \in CallbackLists : AddEventHandler(cbs)
    \/ \E id \in 0 .. MaxSubscriptions - 1 : RemoveEventHandler(id)
    \/ \E E \in EventTypes : EmitEvent(E)

SpecEvents == Init /\ [][NextEvents]_vars

\* A scene with one component type and handlers of its remove_component
\* event, filled, batched and destroyed.
NextDestroy ==
    \/ Add
    \/ \E id \in Ids : Emplace(NormalType, id, 1, NextAddr)
    \/ \E id \in Ids : Erase(NormalType, id)
    \/ StartBatch
    \/ FinishBatch
    \/ ev.subscriber_counter < 2 /\ AddEventHandler(<<RemoveNormal>>)
    \/ RemoveEventHandler(0)
    \/ Destroy

SpecDestroy == Init /\ [][NextDestroy]_vars

\* One container over a run of consecutive ids that crosses a page
\* boundary, in a scene whose allocator has issued them all: inserts,
\* erases and clears, in and out of batches.
WalkIds == 1 .. (MaxId + 1)
NextWalk ==
    \/ Add
    \/ \E id \in WalkIds : Emplace(NormalType, id, 1, NextAddr)
    \/ \E id \in WalkIds : Erase(NormalType, id)
    \/ ClearEntities
    \/ StartBatch
    \/ FinishBatch

SpecWalk == InitGrown /\ [][NextWalk]_vars

\* Two component types joined by foreach, both required, the containers
\* changed by inserts, erases and clears in and out of batches between the
\* traversals; the callbacks change nothing.
PivotQueries ==
    { <<Req(NormalType), Req(TagType)>>, <<Req(TagType), Req(NormalType)>> }
NextPivot ==
    \/ fe.pc # "callback" /\ \E T \in JoinTypes, id \in Ids : Emplace(T, id, 1, NextAddr)
    \/ fe.pc # "callback" /\ ClearEntities
    \/ fe.pc # "callback" /\ defer_batch = 0 /\ StartBatch
    \/ fe.pc # "callback" /\ FinishBatch
    \/ defer_batch = 0 /\ \E q \in PivotQueries : ForeachBegin(q, TRUE)
    \/ ForeachReturn

SpecPivot == InitGrown /\ [][NextPivot]_vars

\* foreach over one component type whose callbacks insert and erase
\* components and may throw; the program closes batches by hand as well.
NextThrow ==
    \/ Add
    \/ \E id \in Ids : Emplace(NormalType, id, 1, NextAddr)
    \/ \E id \in Ids : Erase(NormalType, id)
    \/ StartBatch
    \/ FinishBatch
    \/ ForeachBegin(<<Req(NormalType)>>, TRUE)
    \/ ForeachReturn
    \/ ForeachThrow

SpecThrow == Init /\ [][NextThrow]_vars

\* ------------------------------------------------------------------------
\* Properties
\* ------------------------------------------------------------------------
Cs == {T \in Types : components[T].created}
PopCount(c) == Cardinality({i \in AllIds : Bit(c.bucket_bitmask, i)})
Present(c) == {i \in AllIds : contains(c, i)}
Pending(c, id) == Bit(c.bucket_batch_bitmask, id)
CountEv(out, kind, id) ==
    Cardinality({k \in 1 .. Len(out) : out[k].kind = kind /\ out[k].id = id})
B2N(b) == IF b THEN 1 ELSE 0

\* C7: whenever no batch is open, size() of every container equals the
\* number of set occupancy bits, which is the number of ids with contains.
C7_SizeIsPopcount ==
    (defer_batch = 0 /\ ~crashed) =>
        \A T \in Cs :
            /\ size(components[T]) = PopCount(components[T])
            /\ PopCount(components[T]) = Cardinality(Present(components[T]))

\* C8: every call emits Added minus Removed for (id, T) equal to the change
\* of has<T>(id), so that the running difference is 1 exactly when id has T;
\* a call that takes id from absent to present emits one Added and no
\* Removed, one that takes it from present to absent one Removed and no
\* Added, also for erase followed by re-insert inside one batch.
C8_EventsMatchTransitions ==
    ~crashed =>
    \A T \in Cs, id \in Ids, v \in Values :
        LET c == components[T]
            e == erase(c, id)
            m == emplace(c, id, v, NextAddr)
        IN  /\ CountEv(e.out, "add", id) - CountEv(e.out, "remove", id)
                   = B2N(contains(e, id)) - B2N(contains(c, id))
            /\ CountEv(m.out, "add", id) - CountEv(m.out, "remove", id)
                   = B2N(contains(m, id)) - B2N(contains(c, id))
            /\ ~contains(c, id) => /\ CountEv(m.out, "add", id) = 1
                                   /\ CountEv(m.out, "remove", id) = 0
            /\ contains(c, id) => /\ CountEv(e.out, "remove", id) = 1
                                  /\ CountEv(e.out, "add", id) = 0

\* C9: emplace on an id that contains(id) holds for replaces the value,
\* leaves size() unchanged and emits one Removed for the old value and then
\* one Added for the new one (the old object is destroyed in between),
\* with a batch open or not.
C9_ReplaceEmitsRemovedThenAdded ==
    ~crashed =>
    \A T \in Cs, id \in Ids, v \in Values :
        LET c == components[T]
            m == emplace(c, id, v, NextAddr)
            old == Slot(c, id)
            new == IF tag_component(T) THEN 0 ELSE v
        IN  contains(c, id) =>
              /\ contains(m, id)
              /\ Slot(m, id) = new
              /\ size(m) = size(c)
              /\ m.out = << Ev("remove", T, id, old), Ev("dtor", T, id, old),
                            Ev("ctor", T, id, new), Ev("add", T, id, new) >>

\* A state in which a replace acts on a component, inside a batch, and
\* changes its value.
C9_Witness ==
    /\ ~crashed
    /\ \E T \in Cs, id \in Ids :
          /\ components[T].batching
          /\ contains(components[T], id)
          /\ Slot(components[T], id) = 1
          /\ Slot(emplace(components[T], id, 2, NextAddr), id) = 2

Quiet(c) == [c EXCEPT !.out = <<>>]
Bits(c) == {i \in AllIds : Bit(c.bucket_bitmask, i)}

C5_View ==
    \A T \in Cs, i \in AllIds :
        components[T].batching =>
            contains(components[T], i) =
                (Hi(i) < components[T].bucket_count
                 /\ Bit(components[T].bucket_bitmask, i)
                        # Bit(components[T].bucket_batch_bitmask, i))
C5_Commit ==
    (defer_batch > 0 /\ defer_batch' = 0 /\ ~crashed') =>
        \A T \in Cs, i \in AllIds :
            /\ contains(components'[T], i) = contains(components[T], i)
            /\ Bit(components'[T].bucket_bitmask, i) = contains(components[T], i)
            /\ contains(components[T], i) =>
                  /\ Slot(components'[T], i) = Slot(components[T], i)
                  /\ Get(components'[T], i) = Get(components[T], i)
C5_ViewIsCommitted == []C5_View /\ [][C5_Commit]_vars

\* A batch at depth 1 that holds a pending insert, a pending erase and an id
\* changed twice, which the next finish_batch commits.
C5_Witness ==
    /\ ~crashed /\ defer_batch = 1
    /\ \E T \in Cs, i, j \in Ids :
          LET c == components[T]
          IN  /\ c.batching
              /\ Pending(c, i) /\ contains(c, i)
              /\ Pending(c, j) /\ ~contains(c, j)
              /\ contains(finish_batch(c), i) /\ ~contains(finish_batch(c), j)

C3_State ==
    ~crashed =>
    \A T \in Cs, id \in Ids :
        LET c == components[T]
            e == erase(c, id)
            m == emplace(c, id, 1, NextAddr)
            f == finish_batch(c)
            old == Slot(c, id)
        IN  c.batching =>
              /\ (contains(c, id) /\ Bit(c.bucket_bitmask, id)) =>
                    /\ ~contains(e, id)
                    /\ Get(e, id) = NullPtr
                    /\ e.out = << Ev("remove", T, id, old) >>
                    /\ Slot(e, id) = old
                    /\ get_unsafe(e, id) = get_unsafe(c, id)
              /\ (contains(c, id) /\ ~Bit(c.bucket_bitmask, id)) =>
                    /\ ~contains(e, id)
                    /\ Get(e, id) = NullPtr
                    /\ e.out = << Ev("remove", T, id, old), Ev("dtor", T, id, old) >>
                    /\ Slot(e, id) = 0
              /\ (~contains(c, id) /\ Bit(c.bucket_bitmask, id)) =>
                    /\ tag_component(T) \/ old # 0
                    /\ CountEv(f.out, "dtor", id) = 1
                    /\ \E k \in 1 .. Len(f.out) :
                          f.out[k] = Ev("dtor", T, id, old)
                    /\ Slot(f, id) = 0
                    /\ ~contains(f, id)
                    /\ CountEv(m.out, "dtor", id) = 1
              /\ ~(~contains(c, id) /\ Bit(c.bucket_bitmask, id)) =>
                    CountEv(f.out, "dtor", id) = 0
C3_InnerFinish ==
    (defer_batch > 1 /\ defer_batch' = defer_batch - 1) =>
        components' = components
C7_Witness ==
    /\ ~crashed /\ defer_batch = 0
    /\ \E T \in Cs : size(components[T]) = 0 /\ Present(components[T]) # {}

\* The ids that have every required type of q, and a set as the ascending
\* sequence of its members.
Matching(comps, q) ==
    {i \in AllIds : \A k \in 1 .. Len(q) :
                        q[k].required => contains(comps[q[k].type], i)}

\* C1: a foreach over at least one required type, started with no batch
\* open, whose callback made no call on the scene, has called the callback
\* exactly once for every id that has all the required types, for no other
\* id, in ascending id order.
C1_JoinCoverage ==
    (fe.pc = "done" /\ fe.entry = 0 /\ ~fe.mutated /\ ~AllOptional(fe.query)) =>
        fe.visited = Ascending(Matching(components, fe.query))

\* C4: the callback is never entered for an entity one of whose required
\* components was erased by an earlier callback of the same traversal (and
\* not inserted again since).
C4_CursorSkipsErased ==
    fe.pc = "callback" => ~fe.now.era

\* has/get/count reflect an insert at once, in a batch or not.
C2_Reflected ==
    ~crashed =>
    \A T \in Cs, id \in Ids :
        LET c == components[T]
            m == emplace(c, id, 1, NextAddr)
        IN  ~contains(c, id) =>
              /\ contains(m, id)
              /\ Get(m, id) # NullPtr
              /\ get_unsafe(m, id) = Get(m, id)
              /\ tag_component(T) \/ Slot(m, id) = 1
              /\ size(m) = size(c) + 1

\* The ids whose insert is pending in the open batch of c.
PendingInserts(c) ==
    {i \in AllIds : c.batching /\ contains(c, i) /\ ~Bit(c.bucket_bitmask, i)}

C6_Dereferenceable ==
    \A T \in Cs, id \in AllIds :
        contains(components[T], id) =>
            /\ Get(components[T], id) # NullPtr
            /\ tag_component(T) \/ Get(components[T], id)[1] \in Addrs
            /\ \A j \in AllIds :
                  (contains(components[T], j) /\ Hi(j) # Hi(id) /\ ~tag_component(T))
                      => Get(components[T], j)[1] # Get(components[T], id)[1]
C6_Step ==
    \A T \in Types, id \in AllIds :
        (contains(components[T], id) /\ contains(components'[T], id)) =>
            Get(components'[T], id) = Get(components[T], id)
C6_AddressStable == []C6_Dereferenceable /\ [][C6_Step]_vars

\* A component is present (its insert pending in an open batch) in a
\* container whose page arrays have their initial size, and the insert of
\* FarId makes them grow.
C6_Witness ==
    /\ ~crashed
    /\ LET c == components[NormalType]
           m == emplace(c, FarId, 1, NextAddr)
       IN  /\ c.created /\ c.batching
           /\ 1 \in PendingInserts(c)
           /\ c.bucket_count = initial_bucket_count
           /\ m.bucket_count > initial_bucket_count
           /\ contains(m, FarId) /\ contains(m, 1)

\* The ids that have at least one of the types of q.
Union(comps, q) ==
    {i \in AllIds : \E k \in 1 .. Len(q) : contains(comps[q[k].type], i)}

\* C11: in a foreach with a required type, the argument for an optional
\* type U is non-null exactly when the visited entity has U; the entities
\* visited are those that have the required types, whatever optional types
\* they have.
C11_OptionalPointers ==
    /\ (fe.pc = "callback" /\ ~AllOptional(fe.query)) =>
          \A k \in 1 .. Len(fe.query) :
              ~fe.query[k].required => fe.now.ptrs[k] = fe.now.has[k]
    /\ (fe.pc = "done" /\ fe.entry = 0 /\ ~fe.mutated /\ ~AllOptional(fe.query)) =>
          fe.visited = Ascending(Matching(components, fe.query))

\* C12: a foreach whose parameters are all optional calls the callback once
\* for every id in the union of the containers, in ascending order, each
\* pointer being non-null exactly when the id has that component, at least
\* one of them in every call.
C12_AllOptionalUnion ==
    /\ (fe.pc = "callback" /\ AllOptional(fe.query)) =>
          /\ \A k \in 1 .. Len(fe.query) : fe.now.ptrs[k] = fe.now.has[k]
          /\ \E k \in 1 .. Len(fe.query) : fe.now.ptrs[k]
    /\ (fe.pc = "done" /\ fe.entry = 0 /\ ~fe.mutated /\ AllOptional(fe.query)) =>
          fe.visited = Ascending(Union(components, fe.query))

\* The same two statements for the calls of a traversal in which no
\* callback has made a call on the scene yet.
C11_Unmutated ==
    (fe.pc = "callback" /\ ~fe.mutated /\ ~AllOptional(fe.query)) =>
        \A k \in 1 .. Len(fe.query) :
            ~fe.query[k].required => fe.now.ptrs[k] = fe.now.has[k]
C12_Unmutated ==
    (fe.pc = "callback" /\ ~fe.mutated /\ AllOptional(fe.query)) =>
        /\ \A k \in 1 .. Len(fe.query) : fe.now.ptrs[k] = fe.now.has[k]
        /\ \E k \in 1 .. Len(fe.query) : fe.now.ptrs[k]

\* C13: the batch depth is never negative and a container that exists is
\* batching exactly when the depth is above 0, also one created while a
\* batch is open; a container leaves batching mode (commits) only in the
\* step that takes the depth from 1 to 0, a finish_batch that leaves the
\* depth above 0 changes no container and neither free list, and
\* finish_batch at depth 0 changes nothing.
C13_State ==
    /\ defer_batch >= 0
    /\ ~crashed => \A T \in Cs : components[T].batching = (defer_batch > 0)
    /\ LET r == ecs_finish_batch(components, 0, reusable_ids,
                                 post_batch_reusable_ids)
       IN  /\ r.comps = components /\ r.depth = 0
           /\ r.reusable = reusable_ids /\ r.post = post_batch_reusable_ids
C13_Step ==
    /\ (\E T \in Types : components[T].batching /\ ~components'[T].batching)
          => (defer_batch = 1 /\ defer_batch' = 0)
    /\ (defer_batch' = defer_batch - 1 /\ defer_batch' > 0 /\ ~crashed') =>
          /\ components' = components
          /\ reusable_ids' = reusable_ids
          /\ post_batch_reusable_ids' = post_batch_reusable_ids
    /\ (defer_batch = 1 /\ defer_batch' = 0 /\ ~crashed') =>
          \A T \in Cs : components'[T] = Quiet(finish_batch(components[T]))
C13_DepthGovernsBatching == []C13_State /\ [][C13_Step]_vars

\* A foreach that runs inside a batch of the program is about to return:
\* the depth is 2, the container holds pending changes, and the
\* finish_batch that ends the foreach leaves the depth at 1.
C13_Witness ==
    /\ ~crashed /\ fe.pc = "callback" /\ fe.entry = 1 /\ defer_batch = 2
    /\ \E T \in Cs : components[T].batch_checklist # <<>>
    /\ LET st == LoopStep(components, fe.query, fe.iters, fe.pivot, fe.adv, fe.cur)
       IN  /\ ~st.fault
           /\ LoopHead(components, fe.query, st.iters, fe.pivot, st.adv).kind = "end"

\* C14: while a batch is open add() returns no id that remove(id) was given
\* in that batch (those wait in post_batch_reusable_ids, which is empty
\* when no batch is open); a remove(id) in a batch appends id there; the
\* finish_batch that brings the depth to 0 moves them to reusable_ids,
\* from which add() takes its ids.
C14_State ==
    /\ defer_batch = 0 => post_batch_reusable_ids = <<>>
    /\ ecs_add(id_counter, reusable_ids).id \notin Range(post_batch_reusable_ids)
    /\ \A i \in Range(post_batch_reusable_ids) :
          i \notin Range(reusable_ids) /\ Issued(i)
C14_Step ==
    /\ (defer_batch > 0 /\ defer_batch' > 0 /\ ~crashed') =>
          /\ \A i \in Range(post_batch_reusable_ids) :
                i \in Range(post_batch_reusable_ids')
          /\ \A i \in Range(post_batch_reusable_ids') :
                i \notin Range(reusable_ids')
          /\ \A i \in Range(reusable_ids') : i \in Range(reusable_ids)
    /\ (defer_batch = 1 /\ defer_batch' = 0 /\ ~crashed') =>
          /\ reusable_ids' = reusable_ids \o post_batch_reusable_ids
          /\ post_batch_reusable_ids' = <<>>
          /\ post_batch_reusable_ids # <<>> =>
                ecs_add(id_counter', reusable_ids').id
                    = post_batch_reusable_ids[Len(post_batch_reusable_ids)]
C14_RemovedIdsWaitForCommit == []C14_State /\ [][C14_Step]_vars

\* In an open batch an id has been removed and the active free list and
\* the counter can both still serve add().
C14_Witness ==
    /\ ~crashed /\ defer_batch > 0
    /\ post_batch_reusable_ids # <<>>
    /\ reusable_ids # <<>>
    /\ ecs_add(id_counter, reusable_ids).id # INVALID_ENTITY

NoDup(q) == \A a, b \in 1 .. Len(q) : q[a] = q[b] => a = b

\* C15: neither free list holds an id twice, an id that is in both, or an
\* id that add() has not issued; a valid id that add() returns is not live
\* and is live afterwards, alone added to the live ids, so that it cannot be
\* returned again while it is live; remove(id) takes id alone out of the
\* live ids; start_batch and finish_batch leave the live ids as they are.
C15_State ==
    /\ NoDup(reusable_ids \o post_batch_reusable_ids)
    /\ \A i \in Range(reusable_ids) \cup Range(post_batch_reusable_ids) : Issued(i)
    /\ LET r == ecs_add(id_counter, reusable_ids)
       IN  r.id # INVALID_ENTITY => r.id \notin Live
C15_Step ==
    LET r == ecs_add(id_counter, reusable_ids)
        lists == Range(reusable_ids) \cup Range(post_batch_reusable_ids)
        lists1 == Range(reusable_ids') \cup Range(post_batch_reusable_ids')
    IN  /\ (id_counter' = r.counter /\ reusable_ids' = r.reusable
            /\ post_batch_reusable_ids' = post_batch_reusable_ids
            /\ defer_batch' = defer_batch /\ r.id # INVALID_ENTITY
            /\ <<id_counter, reusable_ids>> # <<id_counter', reusable_ids'>>) =>
              Live' = Live \cup {r.id}
        /\ (id_counter' = id_counter /\ lists1 \ lists # {}) =>
              \E id \in Live : lists1 = lists \cup {id} /\ Live' = Live \ {id}
        /\ defer_batch' # defer_batch => Live' = Live
C15_AddReturnsFreshIds == []C15_State /\ [][C15_Step]_vars

\* Ids wait in both free lists while other ids are live, and add() is
\* about to return one from the active list.
C15_Witness ==
    /\ ~crashed
    /\ Live # {}
    /\ post_batch_reusable_ids # <<>>
    /\ Len(reusable_ids) >= 2
    /\ ecs_add(id_counter, reusable_ids).id \in Range(reusable_ids)

\* C16: with no id waiting for reuse, add() on a counter that is not
\* INVALID_ENTITY returns the counter, a valid id, and advances it by one;
\* a fresh scene starts the counter at 1; the call that returns 4294967295,
\* the 4294967295th of a scene without removals, wraps the counter to
\* INVALID_ENTITY, and from then on add() returns INVALID_ENTITY and leaves
\* the counter alone until clear_entities() resets it.
C16_State ==
    LET r == ecs_add(id_counter, reusable_ids)
    IN  reusable_ids = <<>> =>
          /\ id_counter # INVALID_ENTITY =>
                /\ r.id = id_counter /\ r.id # INVALID_ENTITY
                /\ r.counter = id_counter + 1
                /\ r.counter # id_counter
                /\ (r.counter = INVALID_ENTITY) = (id_counter = -1)
          /\ id_counter = INVALID_ENTITY =>
                /\ r.id = INVALID_ENTITY
                /\ r.counter = INVALID_ENTITY
          /\ r.reusable = <<>>
C16_Step ==
    /\ (id_counter = INVALID_ENTITY /\ id_counter' # INVALID_ENTITY) =>
          (id_counter' = 1 /\ defer_batch = 0 /\ reusable_ids' = <<>>)
    /\ id_counter' # id_counter =>
          \/ id_counter' = id_counter + 1
          \/ id_counter' = 1 /\ defer_batch = 0
C16_Fresh ==
    ecs_add(1, <<>>) = [id |-> 1, counter |-> 2, reusable |-> <<>>]
C16_AddUntilExhausted == C16_Fresh /\ []C16_State /\ [][C16_Step]_vars

\* add() has returned every id below 4294967295 and none has been removed:
\* the next call returns the last valid id and exhausts the counter.
C16_Witness ==
    /\ ~crashed /\ id_counter = -1
    /\ reusable_ids = <<>> /\ post_batch_reusable_ids = <<>>
    /\ ecs_add(id_counter, reusable_ids).id = -1
    /\ ecs_add(id_counter, reusable_ids).counter = INVALID_ENTITY

\* The loop of the id reuse test: n calls of add() (AddN), then remove() of
\* the n ids in the order add() returned them, no batch open.
AddRemoveRound(counter, reusable, n) ==
    LET a == AddN(counter, reusable, n)
    IN  [ids |-> a.ids, counter |-> a.counter, reusable |-> a.reusable \o a.ids]
RoundSize == 3

\* C17: with no batch open, add() returns the last id of the free list, a
\* valid id, and leaves the counter alone whenever the list is non-empty;
\* remove(id) puts id last in the list, so that the id add() returns is the
\* most recently removed one that is still free; a call that advances the
\* counter found the list empty, and after it every id the counter has
\* passed is live, so that the counter is 1 plus the number of live ids.  A
\* round of three add() and three remove() whose ids are valid is followed by
\* a round that gets the same three ids, none of them INVALID_ENTITY, and
\* does not move the counter; on a fresh scene the counter stays at 4.
C17_State ==
    LET r == ecs_add(id_counter, reusable_ids)
        r1 == AddRemoveRound(id_counter, reusable_ids, RoundSize)
        r2 == AddRemoveRound(r1.counter, r1.reusable, RoundSize)
    IN  (defer_batch = 0 /\ ~crashed) =>
          /\ post_batch_reusable_ids = <<>>
          /\ reusable_ids # <<>> =>
                /\ r.id = reusable_ids[Len(reusable_ids)]
                /\ r.id # INVALID_ENTITY
                /\ r.counter = id_counter
                /\ r.reusable = SubSeq(reusable_ids, 1, Len(reusable_ids) - 1)
          /\ r.counter # id_counter => reusable_ids = <<>>
          /\ (\A k \in 1 .. RoundSize : r1.ids[k] # INVALID_ENTITY) =>
                /\ \A k \in 1 .. RoundSize :
                      /\ r2.ids[k] # INVALID_ENTITY
                      /\ r2.ids[k] = r1.ids[RoundSize + 1 - k]
                /\ r2.counter = r1.counter
                /\ Range(r2.reusable) = Range(r1.reusable)
C17_Step ==
    /\ (defer_batch = 0 /\ defer_batch' = 0 /\ ~crashed'
        /\ Len(reusable_ids') = Len(reusable_ids) + 1) =>
          \E id \in Live :
              /\ reusable_ids' = Append(reusable_ids, id)
              /\ id_counter' = id_counter
              /\ ecs_add(id_counter', reusable_ids').id = id
    /\ (defer_batch = 0 /\ id_counter # INVALID_ENTITY
        /\ id_counter' = id_counter + 1) =>
          /\ reusable_ids = <<>> /\ reusable_ids' = <<>>
          /\ post_batch_reusable_ids' = <<>>
          /\ \A i \in AllIds \cup TopIds : Issued(i)' => i \in Live'
          /\ id_counter' > 0 => Cardinality(Live') = id_counter' - 1
C17_Fresh ==
    LET r1 == AddRemoveRound(1, <<>>, RoundSize)
        r2 == AddRemoveRound(r1.counter, r1.reusable, RoundSize)
    IN  /\ r1.ids = <<1, 2, 3>> /\ r1.counter = 4
        /\ r2.ids = <<3, 2, 1>> /\ r2.counter = 4
C17_ReuseBeforeCounter == C17_Fresh /\ []C17_State /\ [][C17_Step]_vars

\* The counter is exhausted, no batch is open, and add() returns the id
\* removed last of the two that were removed.
C17_Witness ==
    /\ ~crashed /\ defer_batch = 0
    /\ id_counter = INVALID_ENTITY
    /\ Len(reusable_ids) = 2
    /\ ecs_add(id_counter, reusable_ids).id = reusable_ids[2]
    /\ ecs_add(id_counter, reusable_ids).id # INVALID_ENTITY

\* C18: clear_entities() leaves count<T>() = 0 for every component type,
\* whether or not a batch is open; with no batch open it sets the id counter
\* to 1 and leaves both free lists empty, so that the next add() returns 1,
\* also when the counter was exhausted; with a batch open it leaves the
\* counter and both free lists as they were.
C18_State ==
    ~crashed => \A T \in Types : size(ClearAll(components)[T]) = 0
C18_Post ==
    ~crashed' =>
      /\ \A T \in Types : size(components'[T]) = 0
      /\ defer_batch' = defer_batch
      /\ defer_batch = 0 =>
            /\ id_counter' = 1
            /\ reusable_ids' = <<>> /\ post_batch_reusable_ids' = <<>>
            /\ ecs_add(id_counter', reusable_ids') =
                   [id |-> 1, counter |-> 2, reusable |-> <<>>]
      /\ defer_batch > 0 =>
            /\ id_counter' = id_counter
            /\ reusable_ids' = reusable_ids
            /\ post_batch_reusable_ids' = post_batch_reusable_ids
C18_WitnessBatch ==
    /\ ~crashed /\ defer_batch > 0
    /\ post_batch_reusable_ids # <<>>
    /\ size(components[NormalType]) > 0

\* C19: after remove(id) no container contains id and operator[] returns
\* null for it, for every component type; for every other id each container
\* contains it exactly if it did before, at the same address and with the
\* same value; id has been appended to reusable_ids and
\* post_batch_reusable_ids is as before when no batch is open, and the other
\* way round when one is.
C19_Post(id) ==
    ~crashed' =>
      /\ \A T \in Types :
            /\ ~contains(components'[T], id)
            /\ Get(components'[T], id) = NullPtr
            /\ \A j \in AllIds \ {id} :
                  /\ contains(components'[T], j) = contains(components[T], j)
                  /\ Get(components'[T], j) = Get(components[T], j)
                  /\ contains(components[T], j) =>
                        Slot(components'[T], j) = Slot(components[T], j)
      /\ defer_batch = 0 =>
            /\ reusable_ids' = Append(reusable_ids, id)
            /\ post_batch_reusable_ids' = post_batch_reusable_ids
      /\ defer_batch > 0 =>
            /\ post_batch_reusable_ids' = Append(post_batch_reusable_ids, id)
            /\ reusable_ids' = reusable_ids
      /\ id_counter' = id_counter /\ defer_batch' = defer_batch
C19_RemoveErasesEverywhere ==
    [][\A id \in Ids : RemoveEntity(id) => C19_Post(id)]_vars

\* Entity 2 was removed inside a batch: its component waits for the commit
\* and is no longer contained, the id waits in the deferred list, and the
\* component of entity 1 is in place.
C19_Witness ==
    /\ ~crashed /\ defer_batch > 0
    /\ post_batch_reusable_ids = <<2>>
    /\ 2 \notin Range(reusable_ids)
    /\ Bit(components[NormalType].bucket_bitmask, 2)
    /\ ~contains(components[NormalType], 2)
    /\ Get(components[NormalType], 2) = NullPtr
    /\ contains(components[NormalType], 1)

\* C20: concat(other), called with the other scene not batching, returns,
\* and then for every copy constructible type the count of this scene has
\* grown by the count of the other scene, for every other type the count is
\* as before, and every component this scene contained is still contained
\* with its value; this holds at any batch depth of this scene, and the
\* commit of an open batch leaves the counts as they are.
C20_Counts ==
    /\ \A T \in Types :
          size(components'[T]) =
              size(components[T])
                  + IF is_copy_constructible(T) THEN size(other[T]) ELSE 0
    /\ \A T \in Types, id \in AllIds :
          contains(components[T], id) =>
              /\ contains(components'[T], id)
              /\ Slot(components'[T], id) = Slot(components[T], id)
C20_State ==
    \A T \in Types : size(finish_batch(components[T])) = size(components[T])
C20_ConcatAddsCounts ==
    []C20_State /\ [][Concat => (~crashed' /\ C20_Counts)]_vars

\* The same for the calls of concat that return.
C20_WhenReturns ==
    []C20_State /\ [][(Concat /\ ~crashed') => C20_Counts]_vars

\* C21: concat(other, &table) returns with a table whose keys are exactly
\* the ids of the other scene that own at least one component of any type,
\* each mapped to its own id that add() of this scene has just returned;
\* and for every key b and every copy constructible type T this scene has T
\* at table[b] exactly when the other scene has T at b, with an equal value.
C21_Table ==
    ecs_concat(components, type_keys, defer_batch, id_counter, reusable_ids,
               post_batch_reusable_ids, other).table
C21_Owners == {b \in AllIds : \E T \in Types : contains(other[T], b)}
C21_Post ==
    /\ Range(C21_Table.from) = C21_Owners
    /\ Len(C21_Table.from) = Cardinality(C21_Owners)
    /\ Len(C21_Table.to) = Len(C21_Table.from)
    /\ NoDup(C21_Table.to)
    /\ Range(C21_Table.to) \cap Live = {}
    /\ Range(C21_Table.to) \subseteq Live'
    /\ \A b \in C21_Owners, T \in Types :
          is_copy_constructible(T) =>
              /\ contains(components'[T], At(C21_Table, b))
                     = contains(other[T], b)
              /\ contains(other[T], b) =>
                     Slot(components'[T], At(C21_Table, b)) = Slot(other[T], b)
C21_ConcatFillsTable ==
    [][Concat => (~crashed' /\ C21_Post)]_vars

\* The same for the calls of concat that return.
C21_WhenReturns ==
    [][(Concat /\ ~crashed') => C21_Post]_vars

\* Calls of concat that return: one with a table of two ids, one of which
\* owns only a component that is not copy constructible, and one into a
\* scene that holds a component of its own.
C21_Step ==
    /\ Concat
    /\ ~crashed'
    /\ \/ /\ Len(C21_Table.from) = 2
          /\ \E b \in C21_Owners : \A T \in Types :
                contains(other[T], b) => ~is_copy_constructible(T)
       \/ /\ Len(C21_Table.from) = 1
          /\ size(components[NormalType]) > 0
C21_Returns == [][C21_Step => C21_Post]_vars

\* C22: copy(other, b) returns an id that add() of this scene has just
\* handed out; afterwards this scene has, at that id, a component of every
\* copy constructible type exactly when the other scene has one at b, with
\* an equal value, and no component of a type that is not copy
\* constructible; the other scene is unchanged.  Copying every id of the
\* other scene into an empty scene gives, per copy constructible type, the
\* count of the other scene, and 0 for the other types.
C22_New == ecs_add(id_counter, reusable_ids).id
C22_Post(b) ==
    /\ ~crashed'
    /\ C22_New \notin Live
    /\ C22_New \in Live'
    /\ \A T \in Types :
          IF is_copy_constructible(T)
          THEN /\ contains(components'[T], C22_New) = contains(other[T], b)
               /\ contains(other[T], b) =>
                      Slot(components'[T], C22_New) = Slot(other[T], b)
          ELSE ~contains(components'[T], C22_New)
    /\ other' = other
\* copy(other, id) for the ids of the sequence, one after the other, into
\* the scene comps whose allocator is at counter: the containers at the end.
RECURSIVE C22_CopyEach(_, _, _, _)
C22_CopyEach(comps, keys, counter, ids) ==
    IF ids = <<>> THEN comps
    ELSE C22_CopyEach(ecs_copy(comps, keys, 0, counter, <<>>, other,
                               Head(ids)).comps,
                      keys, counter + 1, Tail(ids))
C22_State ==
    \A T \in Types :
        size(C22_CopyEach([U \in Types |-> NewContainer(U)], type_keys, 1,
                          Ascending(Ids))[T])
            = IF is_copy_constructible(T) THEN size(other[T]) ELSE 0
C22_CopyMirrorsEntity ==
    []C22_State /\ [][\A b \in CopyIds : Copy(b) => C22_Post(b)]_vars

\* An entity with a copyable and a non-copyable component has been copied
\* into an open batch of this scene, to the id that an earlier copy, of the
\* entity with the tag, had got and that remove() gave back.
C22_Witness ==
    /\ ~crashed
    /\ defer_batch > 0
    /\ contains(other[NormalType], 2)
    /\ contains(other[UncopiableType], 2)
    /\ contains(other[TagType], 1)
    /\ id_counter = 2
    /\ components[TagType].created
    /\ ~contains(components[TagType], 1)
    /\ contains(components[NormalType], 1)
    /\ Slot(components[NormalType], 1) = OtherValue
    /\ ~contains(components[UncopiableType], 1)

\* C23: after attach(id, D{v}) of a component D with the dependencies U and
\* V the entity has D, U and V; a dependency it already had keeps its value
\* and its address, a dependency it lacked is default constructed.
\* remove<D>(id) takes D from the entity and nothing else from any entity;
\* remove(id) takes D, U and V from the entity.  All of it at any batch
\* depth.
C23_Deps == {TagType, NormalType}
C23_Attached(id) ==
    /\ ~crashed'
    /\ contains(components'[DependencyType], id)
    /\ Slot(components'[DependencyType], id) = 1
    /\ \A U \in C23_Deps :
          /\ contains(components'[U], id)
          /\ IF contains(components[U], id)
             THEN /\ Slot(components'[U], id) = Slot(components[U], id)
                  /\ Get(components'[U], id) = Get(components[U], id)
             ELSE ~tag_component(U) => Slot(components'[U], id) = DefaultValue
C23_Erased(id) ==
    /\ ~crashed'
    /\ ~contains(components'[DependencyType], id)
    /\ View(components') = View(components) \ {<<DependencyType, id>>}
    /\ \A U \in C23_Deps :
          contains(components[U], id) =>
              Slot(components'[U], id) = Slot(components[U], id)
C23_Removed(id) ==
    /\ ~crashed'
    /\ \A T \in Types : ~contains(components'[T], id)
C23_DependenciesFollow ==
    [][\A id \in Ids :
          /\ Attach(DependencyType, id, 1) => C23_Attached(id)
          /\ Erase(DependencyType, id) => C23_Erased(id)
          /\ RemoveEntity(id) => C23_Removed(id)]_vars

\* Inside a batch, entity 1 holds D, the tag and a normal component whose
\* value is not the default: the one it had when D was attached, or one
\* attached over the default since.
C23_Witness ==
    /\ ~crashed
    /\ defer_batch > 0
    /\ contains(components[DependencyType], 1)
    /\ contains(components[TagType], 1)
    /\ contains(components[NormalType], 1)
    /\ Slot(components[NormalType], 1) = 1
    /\ components[NormalType].batch_checklist # <<>>

\* The steps the three parts are about: D attached in a batch to an entity
\* that has a normal component, D attached to an entity without one, D
\* removed from an entity that keeps its dependencies, an entity with all
\* three removed in a batch.
C23_KeepStep ==
    /\ Attach(DependencyType, 1, 1)
    /\ defer_batch > 0
    /\ contains(components[NormalType], 1)
    /\ ~contains(components[TagType], 1)
C23_DefaultStep ==
    /\ Attach(DependencyType, 1, 1)
    /\ ~contains(components[NormalType], 1)
    /\ Slot(components'[NormalType], 1) = DefaultValue
C23_EraseStep ==
    /\ Erase(DependencyType, 1)
    /\ contains(components[DependencyType], 1)
    /\ contains(components'[NormalType], 1)
    /\ contains(components'[TagType], 1)
C23_RemoveStep ==
    /\ RemoveEntity(1)
    /\ defer_batch > 0
    /\ \A T \in C23_Deps \cup {DependencyType} : contains(components[T], 1)

\* The callbacks of subscriptions that were made and not removed, and the
\* event type a callback takes.
CallbackType(cb) == ev.made[cb[1] + 1][cb[2]]
Registered ==
    {cb \in (0 .. MaxSubscriptions - 1) \X (1 .. 2) :
        /\ cb[1] < ev.subscriber_counter
        /\ cb[1] \notin ev.removed
        /\ cb[2] <= Len(ev.made[cb[1] + 1])}
\* The registered callbacks for E in the order of registration: by
\* subscription, then by argument.
RECURSIVE InOrder(_, _)
InOrder(cbs, E) ==
    IF cbs = {} THEN <<>>
    ELSE LET first == CHOOSE cb \in cbs : \A o \in cbs :
                          cb[1] < o[1] \/ (cb[1] = o[1] /\ cb[2] <= o[2])
         IN  (IF CallbackType(first) = E THEN <<first>> ELSE <<>>)
                 \o InOrder(cbs \ {first}, E)
RECURSIVE Only(_, _)
Only(calls, S) ==
    IF calls = <<>> THEN <<>>
    ELSE (IF Head(calls) \in S THEN <<Head(calls)>> ELSE <<>>)
             \o Only(Tail(calls), S)

\* C24: emit<E>() invokes the callback of every handler registered for E
\* exactly once, in the order of registration, invokes no callback that
\* takes another event type, and invokes nothing when no handler for E
\* exists; the calls are made before emit returns (they are part of the
\* step).
C24_Post(E) ==
    /\ ev'.emitted = E
    /\ Only(ev'.calls, Registered) = InOrder(Registered, E)
    /\ \A k \in 1 .. Len(ev'.calls) : CallbackType(ev'.calls[k]) = E
    /\ get_handler_count(ev.event_handlers, E) = 0 => ev'.calls = <<>>
    /\ ev'.event_handlers = ev.event_handlers
C24_EmitCallsHandlersInOrder ==
    [][\A E \in EventTypes : EmitEvent(E) => C24_Post(E)]_vars

\* test_event_1 was emitted with three handlers registered, the middle one
\* of them registered together with a handler of test_event_2.
C24_Witness ==
    /\ ev.emitted = TestEvent1
    /\ ev.calls = <<<<0, 1>>, <<1, 1>>, <<2, 1>>>>
    /\ ev.made[2] = <<TestEvent1, TestEvent2>>
    /\ ev.removed = {}

\* C25: once a subscription is destroyed or remove_event_handler(id) was
\* called for it, no later emit invokes any of its callbacks, and
\* get_handler_count<E>() is, for every event type E, the number of
\* callbacks for E of the subscriptions that are left.
C25_Counts ==
    \A E \in EventTypes :
        get_handler_count(ev.event_handlers, E)
            = Cardinality({cb \in Registered : CallbackType(cb) = E})
C25_NotCalled ==
    \A k \in 1 .. Len(ev'.calls) : ev'.calls[k][1] \notin ev.removed
C25_RemovalIsComplete ==
    /\ []C25_Counts
    /\ [][\A E \in EventTypes : EmitEvent(E) => C25_NotCalled]_vars

\* The same for the programs that have not removed a subscription with two
\* callbacks for one event type.
C25_OnePerType ==
    \A id \in ev.removed : NoDup(ev.made[id + 1])
C25_WhenOnePerType ==
    /\ [](C25_OnePerType => C25_Counts)
    /\ [][\A E \in EventTypes :
             (EmitEvent(E) /\ C25_OnePerType) => C25_NotCalled]_vars

\* C26: the destructor of a scene emits one remove_component<T> (one
\* signal_remove, which is also the remove_entity call of the search index)
\* for every component the scene holds and none for any other id, and each
\* of them reaches every handler registered at that moment: they are
\* emitted before event_handlers is destroyed, none after.
C26_Post ==
    /\ \A T \in Types, id \in AllIds :
          Cardinality({k \in 1 .. Len(ev'.removes) :
                          ev'.removes[k] = [type |-> T, id |-> id]})
              = B2N(contains(components[T], id))
    /\ \A cb \in Registered, id \in AllIds :
          CallbackType(cb) = RemoveNormal =>
              Cardinality({k \in 1 .. Len(ev'.calls) :
                              ev'.calls[k] = <<cb, id>>})
                  = B2N(contains(components[NormalType], id))
    /\ ev'.late = <<>>
    /\ ~crashed'
C26_DestructorEmitsRemoved ==
    [][Destroy => C26_Post]_vars

\* The same for a scene that is destroyed with no batch open.
C26_WhenNotBatching ==
    [][(Destroy /\ defer_batch = 0) => C26_Post]_vars

\* The same for a scene destroyed in a batch that holds no pending insert.
C26_WhenNoPendingInsert ==
    [][(Destroy /\ \A T \in Types : PendingInserts(components[T]) = {})
           => C26_Post]_vars

\* A scene with two components and a handler, no batch open, is destroyed.
C26_Step ==
    /\ Destroy
    /\ defer_batch = 0
    /\ size(components[NormalType]) = 2
    /\ get_handler_count(ev.event_handlers, RemoveNormal) = 1
    /\ Len(ev'.calls) = 2

\* C27: the Added and Removed events of a component are emitted inside the
\* emplace or erase call itself, with a batch open or not: emplace emits
\* its Added after the constructor ran, erase of a component that is
\* present emits its Removed, and an erase of an absent one emits nothing.
\* Every event carries the id of the call and the payload as it is at that
\* moment, constructed and not yet destroyed (a destructor that ran would
\* have left 0 in the slot).  The commit of a batch runs destructors only
\* and emits no event.
C27_Signals(out) == {k \in 1 .. Len(out) : out[k].kind \in {"add", "remove"}}
C27_Carried(c, id) ==
    /\ ~c.fault
    /\ \A k \in C27_Signals(c.out) :
          /\ c.out[k].id = id
          /\ c.out[k].type = c.type
          /\ c.out[k].val # 0
          /\ c.out[k].val \in Values
C27_EventsAreSynchronous ==
    ~crashed =>
    \A T \in Cs, id \in Ids, v \in Values :
        LET c == components[T]
            e == erase(c, id)
            m == emplace(c, id, v, NextAddr)
            f == finish_batch(c)
        IN  /\ C27_Carried(e, id)
            /\ C27_Carried(m, id)
            /\ CountEv(e.out, "remove", id) = B2N(contains(c, id))
            /\ CountEv(e.out, "add", id) = 0
            /\ CountEv(m.out, "add", id) = 1
            /\ m.out[Len(m.out)] = Ev("add", T, id, v)
            /\ m.out[Len(m.out) - 1] = Ev("ctor", T, id, v)
            /\ C27_Signals(f.out) = {}
            /\ \A k \in 1 .. Len(f.out) : f.out[k].kind = "dtor"

\* A batch with an erase and an insert pending: the commit has a destructor
\* to run and an occupancy bit to set.
C27_Witness ==
    /\ ~crashed
    /\ components[NormalType].batching
    /\ Bit(components[NormalType].bucket_bitmask, 1)
    /\ ~contains(components[NormalType], 1)
    /\ ~Bit(components[NormalType].bucket_bitmask, 2)
    /\ contains(components[NormalType], 2)
    /\ Len(finish_batch(components[NormalType]).out) = 1

\* C28: erase(id), and so remove<T>(id), on an id that contains(id) is
\* false for returns the container as it was: no event or destructor call,
\* size(), occupancy bits, jump table, overlay, checklist and payloads all
\* unchanged, with a batch open or not; the ids include INVALID_ENTITY, ids
\* beyond the allocated pages and ids whose erase is pending.
C28_AnyId == AllIds \cup TopIds \cup {INVALID_ENTITY}
C28_EraseAbsentIsNoop ==
    ~crashed =>
    \A T \in Types, id \in C28_AnyId :
        LET c == get_container(components, defer_batch, T)[T]
        IN  ~contains(c, id) =>
                /\ erase(c, id) = c
                /\ erase(c, id).out = <<>>
                /\ size(erase(c, id)) = size(c)

\* A batch in which the erase of entity 1 is pending, so that its occupancy
\* bit is set while contains(1) is false, and entity 2 is present.
C28_Witness ==
    /\ ~crashed
    /\ components[NormalType].batching
    /\ Bit(components[NormalType].bucket_bitmask, 1)
    /\ ~contains(components[NormalType], 1)
    /\ contains(components[NormalType], 2)
    /\ components[NormalType].batch_checklist # <<>>

\* C29: emplace, and so insert and attach, with INVALID_ENTITY returns the
\* container as it was (size, occupancy, overlay, checklist, pages, and no
\* Added event or constructor call), for a component with dependencies as
\* well, whose dependencies are not attached either; contains(INVALID) is
\* false and operator[] gives null for INVALID in every state, with a batch
\* open or not.
C29_Unchanged(after, T) ==
    after[T] \in {components[T], get_container(components, defer_batch, T)[T]}
C29_InvalidIsIgnored ==
    ~crashed =>
    \A T \in Types, v \in Values :
        LET c == get_container(components, defer_batch, T)[T]
        IN  /\ emplace(c, INVALID_ENTITY, v, NextAddr).entity_count = size(c)
            /\ emplace(c, INVALID_ENTITY, v, NextAddr) = c
            /\ \A U \in Types :
                  C29_Unchanged(ecs_attach(components, defer_batch, T,
                                           INVALID_ENTITY, v), U)
            /\ ~contains(c, INVALID_ENTITY)
            /\ Get(c, INVALID_ENTITY) = NullPtr
            /\ ~contains(components[T], INVALID_ENTITY)
            /\ Get(components[T], INVALID_ENTITY) = NullPtr

\* A batch with entity 1, next to INVALID_ENTITY in the first page, present
\* and committed, and entity 2 a pending insert.
C29_Witness ==
    /\ ~crashed
    /\ components[NormalType].batching
    /\ Bit(components[NormalType].bucket_bitmask, 1)
    /\ contains(components[NormalType], 1)
    /\ contains(components[NormalType], 2)
    /\ ~Bit(components[NormalType].bucket_bitmask, 2)

\* C30: with no batch open, the walk from begin() along the jump table
\* passes every occupied id once, in ascending order, and ends at end();
\* begin() is the smallest occupied id, end() when there is none.
C30_Walk(c) ==
    /\ ~Chain(c).fault
    /\ Chain(c).ids = Ascending({i \in AllIds : Bit(c.bucket_bitmask, i)})
    /\ begin(c).it.current_entity
           = IF \E i \in AllIds : Bit(c.bucket_bitmask, i)
             THEN Min({i \in AllIds : Bit(c.bucket_bitmask, i)})
             ELSE end(c).current_entity
    /\ {i \in AllIds : Bit(c.bucket_bitmask, i)} = Present(c)
C30_WalkIsAscending ==
    (defer_batch = 0 /\ ~crashed) => \A T \in Cs : C30_Walk(components[T])

\* The same for the containers whose size() is the number of their
\* occupancy bits.
C30_WhenSizeIsPopcount ==
    (defer_batch = 0 /\ ~crashed) =>
        \A T \in Cs :
            size(components[T]) = PopCount(components[T]) =>
                C30_Walk(components[T])

\* The links of the jump table alone, read from slot 0 without the test of
\* entity_count that begin() makes, in every state, batching or not.
C30_Links ==
    ~crashed =>
        \A T \in Cs :
            components[T].bucket_jump_table[0].alloc =>
                LET w == Walk(components[T],
                              components[T].bucket_jump_table[0].e[0], WalkFuel)
                IN  /\ ~w.fault
                    /\ w.ids = Ascending({i \in AllIds :
                                   Bit(components[T].bucket_bitmask, i)})

\* C31: with no batch open, for every occupied id x whose predecessor x-1
\* is an unoccupied id, the jump-table entry at x-1 holds the largest
\* occupied id below x (slot 0 when there is none); jump_table_erase(x),
\* which reads that entry, then leaves a table whose links pass exactly the
\* remaining occupied ids in ascending order and whose back links are right
\* again, whatever the entries of the other unoccupied slots hold.
C31_Committed(c) == {i \in AllIds : Bit(c.bucket_bitmask, i)}
C31_Previous(c, x) ==
    IF \E i \in C31_Committed(c) : i < x
    THEN Max({i \in C31_Committed(c) : i < x})
    ELSE INVALID_ENTITY
C31_BackLinks(c) ==
    \A x \in C31_Committed(c) :
        (x - 1 # INVALID_ENTITY /\ x - 1 \notin C31_Committed(c)) =>
            /\ c.bucket_jump_table[Hi(x - 1)].alloc
            /\ JT(c, x - 1) = C31_Previous(c, x)
C31_Relinked(c, x) ==
    /\ ~jump_table_erase(bitmask_erase(c, x).c, x).fault
    /\ Walk(jump_table_erase(bitmask_erase(c, x).c, x),
            JT(jump_table_erase(bitmask_erase(c, x).c, x), INVALID_ENTITY),
            WalkFuel)
           = [ids |-> Ascending(C31_Committed(c) \ {x}), fault |-> FALSE]
    /\ C31_BackLinks(jump_table_erase(bitmask_erase(c, x).c, x))
C31_BackLinksFindTheRun ==
    (defer_batch = 0 /\ ~crashed) =>
        \A T \in Cs :
            /\ C31_BackLinks(components[T])
            /\ \A x \in C31_Committed(components[T]) :
                   C31_Relinked(components[T], x)

\* Id 3 is the only occupied id: the entry at 2 is its back link to slot 0,
\* while the entry at 1 still holds the id 3 from an earlier erase.
C31_Witness ==
    /\ defer_batch = 0 /\ ~crashed
    /\ components[NormalType].created
    /\ C31_Committed(components[NormalType]) = {3}
    /\ JT(components[NormalType], 2) = INVALID_ENTITY
    /\ JT(components[NormalType], 1) = 3

\* C32: with no batch open, the top-level bitmask has the bit of a page
\* slot set exactly when the occupancy page of that slot exists and has a
\* bit set, after inserts, erases, clears and batch commits.
C32_TopBit(c, s) == s \in c.top_bitmask
C32_TopMatchesPages ==
    (defer_batch = 0 /\ ~crashed) =>
        \A T \in Cs : \A s \in BucketIdx :
            C32_TopBit(components[T], s) <=> ~bitmask_empty(components[T], s)

\* The page of slot 0 was emptied by erases and is still allocated, while
\* the page of slot 1 holds an id.
C32_Witness ==
    /\ defer_batch = 0 /\ ~crashed
    /\ components[NormalType].created
    /\ components[NormalType].bucket_bitmask[0].alloc
    /\ components[NormalType].bucket_bitmask[0].bits = {}
    /\ components[NormalType].top_bitmask = {1}
    /\ contains(components[NormalType], 3)

\* C33: for a cursor at an occupied id or at end() and a target id t,
\* try_advance(t) returns true exactly when t is occupied and then the
\* cursor is at t; otherwise it returns false and the cursor is unchanged.
C33_Cursors(c) == {end(c)} \cup {iterator(c, e) : e \in C31_Committed(c)}
C33_Exact(c, it, t) ==
    /\ try_advance(c, it, t).ok <=> t \in C31_Committed(c)
    /\ try_advance(c, it, t).ok => try_advance(c, it, t).it.current_entity = t
    /\ ~try_advance(c, it, t).ok => try_advance(c, it, t).it = it
C33_Forward(c, it, t) ==
    /\ try_advance(c, it, t).ok
           <=> (t \in C31_Committed(c) /\ ~(t < it.current_entity))
    /\ try_advance(c, it, t).ok => try_advance(c, it, t).it = iterator(c, t)
    /\ ~try_advance(c, it, t).ok => try_advance(c, it, t).it = it
C34_Ids(calls) == [k \in 1 .. Len(calls) |-> calls[k].id]
C34_Same(comps, q) ==
    /\ ~TraverseFrom(comps, q, 1).fault
    /\ TraverseFrom(comps, q, 1) = TraverseFrom(comps, q, 2)
C34_PivotInvariance ==
    (~crashed /\ fe.pc # "callback" /\ defer_batch = 0) =>
        /\ \A q \in PivotQueries : C34_Same(components, q)
        /\ fe.pc = "done" =>
               fe.visited = C34_Ids(TraverseFrom(components, fe.query, 1).calls)

\* The same in the states where size() of each of the two containers is the
\* number of its occupancy bits.
C34_Counted ==
    \A T \in JoinTypes : size(components[T]) = PopCount(components[T])
C34_WhenSizeIsPopcount ==
    (~crashed /\ fe.pc # "callback" /\ C34_Counted) =>
        /\ \A q \in PivotQueries : C34_Same(components, q)
        /\ fe.pc = "done" =>
               fe.visited = C34_Ids(TraverseFrom(components, fe.query, 1).calls)

\* C35: clear() of a container in batch mode leaves contains(i) false for
\* every id, size() 0, has emitted one Removed per component that was
\* present, ids inserted earlier in the batch included, and the commit
\* then leaves the container empty.
C35_Removed(c, id) == CountEv(c.out, "remove", id)
C35_Cleared(c) ==
    /\ ~clear(c).fault
    /\ \A i \in AllIds : ~contains(clear(c), i)
    /\ size(clear(c)) = 0
    /\ \A i \in AllIds : C35_Removed(clear(c), i) = B2N(contains(c, i))
    /\ PopCount(finish_batch(clear(c))) = 0
    /\ size(finish_batch(clear(c))) = 0
C35_BatchClearErasesAll ==
    (~crashed /\ defer_batch > 0) =>
        \A T \in Cs : C35_Cleared(components[T])

\* The same for the containers with no insert pending and whose size() is
\* the number of components present: clear() reaches the ids whose
\* occupancy bit is set.
C35_WhenNoPendingInsert ==
    (~crashed /\ defer_batch > 0) =>
        \A T \in Cs :
            (/\ PendingInserts(components[T]) = {}
             /\ size(components[T]) = Cardinality(Present(components[T])))
                => C35_Cleared(components[T])

\* clear_entities() is called in a batch with a component present and none
\* pending as an insert, and with one pending as an insert.
C35_StepCommitted ==
    [][~(/\ ClearEntities /\ defer_batch > 0
         /\ Present(components[NormalType]) # {}
         /\ size(components[NormalType])
                = Cardinality(Present(components[NormalType]))
         /\ PendingInserts(components[NormalType]) = {})]_vars
C35_StepPending ==
    [][~(/\ ClearEntities /\ defer_batch > 0
         /\ PendingInserts(components[NormalType]) # {})]_vars

\* C36: whatever erases and inserts a batch made on an id, the commit
\* applies at most one change to it: after the first loop of finish_batch
\* the checklist names the id once when its presence in the view differs
\* from its occupancy bit and not at all when the toggles cancelled; the
\* commit leaves the occupancy bit equal to the presence in the view, and
\* leaves occupancy pages and jump table untouched when every toggle
\* cancelled.
C36_Kept(c, id) ==
    Cardinality({k \in 1 .. Len(c.batch_checklist) :
        DiscardDuplicates(c, Len(c.batch_checklist)).batch_checklist[k] = id})
C36_Net(c) ==
    /\ ~finish_batch(c).fault
    /\ \A i \in AllIds :
          /\ C36_Kept(c, i) = B2N(contains(c, i) # Bit(c.bucket_bitmask, i))
          /\ Bit(finish_batch(c).bucket_bitmask, i) = contains(c, i)
    /\ (\A i \in AllIds : contains(c, i) = Bit(c.bucket_bitmask, i)) =>
          /\ finish_batch(c).bucket_bitmask = c.bucket_bitmask
          /\ finish_batch(c).bucket_jump_table = c.bucket_jump_table
          /\ finish_batch(c).top_bitmask = c.top_bitmask
C36_CommitAppliesNetChange ==
    (~crashed /\ defer_batch > 0) =>
        \A T \in Cs : components[T].batching /\ C36_Net(components[T])

\* Id 1, present before the batch, was erased, inserted and erased again:
\* the checklist names it twice and its overlay bit is set.
C36_Witness ==
    /\ ~crashed /\ defer_batch > 0
    /\ components[NormalType].batching
    /\ components[NormalType].batch_checklist = <<1, 1>>
    /\ Pending(components[NormalType], 1)
    /\ Bit(components[NormalType].bucket_bitmask, 1)
    /\ ~contains(components[NormalType], 1)

\* C37: foreach raises the batch depth by one when it enters a callback
\* and has the depth of its entry again when it is left, by return or by
\* an exception of the callback; a foreach entered with no batch open
\* leaves no container batching and every change of its callbacks
\* committed.
C37_Quiescent ==
    \A T \in Cs :
        /\ ~components[T].batching
        /\ components[T].batch_checklist = <<>>
        /\ \A i \in AllIds :
               contains(components[T], i) = Bit(components[T].bucket_bitmask, i)
        /\ \A i \in AllIds : ~Pending(components[T], i)
C37_Entered ==
    (fe'.pc = "callback" /\ fe.pc # "callback") =>
        /\ fe'.entry = defer_batch
        /\ defer_batch' = defer_batch + 1
C37_Left(how) ==
    (fe.pc = "callback" /\ fe'.pc \in how) =>
        /\ defer_batch' = fe.entry
        /\ fe.entry = 0 => C37_Quiescent'
C37_Empty ==
    (fe.pc # "callback" /\ fe'.pc = "done" /\ fe' # fe) =>
        /\ defer_batch' = defer_batch
        /\ defer_batch = 0 => C37_Quiescent'
C37_DepthRestoredOnEveryExit ==
    [][~crashed' => (C37_Entered /\ C37_Left({"done", "thrown"}) /\ C37_Empty)]_vars

\* The same for the exits by return only.
C37_DepthRestoredOnReturn ==
    [][~crashed' => (C37_Entered /\ C37_Left({"done"}) /\ C37_Empty)]_vars

\* A top-level foreach whose callback has inserted a component returns;
\* one whose callback has inserted a component is left by an exception.
C37_ReturnStep ==
    [][~(ForeachReturn /\ fe.entry = 0 /\ fe'.pc = "done" /\ fe.mutated)]_vars
C37_ThrowStep ==
    [][~(ForeachThrow /\ fe.entry = 0 /\ fe.mutated)]_vars

\* C38: start_batch() and finish_batch() return on every scene, also on
\* one whose components vector has a null slot below a container.
C38_BatchCallsComplete ==
    [][(StartBatch \/ FinishBatch) => ~crashed']_vars

\* The same for the calls that do not loop over the containers of a scene
\* with a null slot: every call on a scene without one, and the calls that
\* only count the depth.
C38_Loops ==
    \/ StartBatch /\ defer_batch = 0
    \/ FinishBatch /\ defer_batch = 1
C38_WhenNoNullSlot ==
    [][((StartBatch \/ FinishBatch)
         /\ ~(NullSlot(components, type_keys) /\ C38_Loops))
            => ~crashed']_vars

\* start_batch() and finish_batch() are called at depth 0 resp. 1 on a
\* scene with a null slot, and on a scene with containers and none.
C38_NullSlotStep ==
    [][~(C38_Loops /\ NullSlot(components, type_keys))]_vars
C38_FullStep ==
    [][~(/\ C38_Loops /\ ~NullSlot(components, type_keys)
         /\ \E T \in Types : components[T].created)]_vars

\* C39: with no batch open no container is batching and no overlay page
\* has a bit set; the start_batch() that opens a batch empties the
\* checklist and changes contains(i) for no id; every overlay bit that is
\* set has an entry in the checklist; the commit leaves no overlay bit set.
C39_OverlayBits(c) == UNION {c.bucket_batch_bitmask[b].bits : b \in BucketIdx}
C39_State ==
    ~crashed =>
        \A T \in Cs :
            /\ defer_batch = 0 =>
                   /\ ~components[T].batching
                   /\ C39_OverlayBits(components[T]) = {}
                   /\ \A i \in AllIds :
                          contains(start_batch(components[T]), i)
                              = contains(components[T], i)
            /\ \A i \in AllIds :
                   Pending(components[T], i) =>
                       i \in Range(components[T].batch_checklist)
            /\ C39_OverlayBits(finish_batch(components[T])) = {}
C39_Open ==
    (StartBatch /\ defer_batch = 0 /\ ~crashed') =>
        \A T \in Cs :
            /\ components'[T].batching
            /\ components'[T].batch_checklist = <<>>
            /\ \A i \in AllIds :
                   contains(components'[T], i) = contains(components[T], i)
C39_Commit ==
    (defer_batch > 0 /\ defer_batch' = 0 /\ ~crashed') =>
        \A T \in Cs : C39_OverlayBits(components'[T]) = {}
C39_OverlayEmptyOutsideBatch ==
    []C39_State /\ [][C39_Open /\ C39_Commit]_vars

\* No batch is open, a batch that changed id 1 has been committed (its
\* overlay page is allocated and has no bit set) and id 1 is present.
C39_Witness ==
    /\ ~crashed /\ defer_batch = 0
    /\ components[NormalType].created
    /\ components[NormalType].bucket_batch_bitmask[0].alloc
    /\ components[NormalType].bucket_batch_bitmask[0].bits = {}
    /\ contains(components[NormalType], 1)

\* C40: on an id that is absent, insert(i, v); erase(i); insert(i, v2)
\* leaves get(i) at the payload v2 and size(), contains and the iteration
\* sequence as a single insert(i, v2) leaves them, with no batch open, and
\* inside a batch both before and after its commit.
C40_Triple(c, i, v, v2) ==
    emplace(erase(emplace(c, i, v, NextAddr), i), i, v2, NextAddr)
C40_Single(c, i, v2) == emplace(c, i, v2, NextAddr)
C40_Alike(a, b, i, v2) ==
    /\ ~a.fault /\ ~b.fault
    /\ contains(a, i)
    /\ Slot(a, i) = IF tag_component(a.type) THEN 0 ELSE v2
    /\ Get(a, i) # NullPtr /\ Get(a, i) = Get(b, i)
    /\ Slot(a, i) = Slot(b, i)
    /\ size(a) = size(b)
    /\ Present(a) = Present(b)
    /\ Chain(a) = Chain(b)
    /\ Bits(a) = Bits(b)
C40_InsertEraseInsert ==
    ~crashed =>
        \A T \in Cs, i \in Ids, v \in Values, v2 \in Values :
            ~contains(components[T], i) =>
                /\ C40_Alike(C40_Triple(components[T], i, v, v2),
                             C40_Single(components[T], i, v2), i, v2)
                /\ C40_Alike(finish_batch(C40_Triple(components[T], i, v, v2)),
                             finish_batch(C40_Single(components[T], i, v2)), i, v2)
                /\ size(C40_Single(components[T], i, v2))
                       = size(components[T]) + 1

\* With no batch open, and in a batch that already holds a pending change,
\* id 2 is absent next to id 1: the three calls leave payload 2 at id 2.
C40_Case(c) ==
    /\ contains(c, 1) /\ ~contains(c, 2)
    /\ Slot(C40_Triple(c, 2, 1, 2), 2) = 2
    /\ Chain(finish_batch(C40_Triple(c, 2, 1, 2))).ids = <<1, 2>>
C40_Witness ==
    /\ ~crashed /\ defer_batch > 0
    /\ components[NormalType].batching
    /\ components[NormalType].batch_checklist # <<>>
    /\ C40_Case(components[NormalType])
C40_WitnessUnbatched ==
    /\ ~crashed /\ defer_batch = 0
    /\ components[NormalType].created
    /\ C40_Case(components[NormalType])

====
